---- MODULE Spec2Model ----
(***************************************************************************)
(* A model of the order builders of the Binance Futures trading bot        *)
(* (src/src/basic_bot.py, market_orders.py, limit_orders.py and            *)
(* advanced/{stop_limit,oco,grid,twap}.py).                                *)
(*                                                                         *)
(* One call of one builder runs from "idle" to "done".  Every request the  *)
(* call sends through the vendor client (exchange-info lookup, ticker      *)
(* query, order creation, order cancellation) and every blocking sleep is  *)
(* one step, appended to the history `remote`; the remote side answers     *)
(* each request nondeterministically (a response, or one of the exception  *)
(* classes the code distinguishes).                                        *)
(*                                                                         *)
(* Numbers.  The code computes with Python floats.  A float is modelled    *)
(* as a binary floating-point number with MantBits significant bits and    *)
(* round-to-nearest-even after every operation, which is what IEEE-754     *)
(* binary64 does with 53 bits.  Every number of the model is an integer    *)
(* count of units of 1/Scale, so that both the binary floats (multiples of *)
(* 2^-FracBits) and the decimals of up to MaxPrec places are exact.        *)
(***************************************************************************)
EXTENDS Integers, Sequences, FiniteSets, TLC

\* ------------------------------------------------------------------------
\* Bounds of the model
\* ------------------------------------------------------------------------

\* Significant bits of a model float (binary64 has 53).
MantBits == 4

\* Largest quantityPrecision / pricePrecision the exchange metadata carries.
MaxPrec == 1

\* Largest grid_levels a call is given.
MaxLevels == 3

\* Largest num_intervals a call is given.
MaxIntervals == 3

\* ------------------------------------------------------------------------
\* Program constants
\* ------------------------------------------------------------------------

\* symbol_info.get('quantityPrecision', 8) / .get('pricePrecision', 8)
DefaultPrecision == 8

\* ------------------------------------------------------------------------
\* Numbers
\* ------------------------------------------------------------------------

\* Model floats are multiples of 2^-FracBits.  With FracBits equal to the
\* default precision every model float has at most DefaultPrecision decimal
\* places, so rounding to the default precision changes nothing.
FracBits == DefaultPrecision

\* Units per 1.0.
Scale == (2 ^ FracBits) * (10 ^ MaxPrec)

\* Units of the smallest binary quantum 2^-FracBits.
Quantum == 10 ^ MaxPrec

\* The integer nearest to a/d (a >= 0, d > 0), ties to the even one.
RoundHalfEven(a, d) ==
    LET f == a \div d
        r == a % d
    IN  IF 2 * r < d THEN f
        ELSE IF 2 * r > d THEN f + 1
        ELSE IF f % 2 = 0 THEN f ELSE f + 1

\* The least binary exponent e >= from at which a/b needs at most MantBits bits.
RECURSIVE FloatExp(_, _, _)
FloatExp(a, b, from) ==
    IF a < b * (2 ^ MantBits) * Quantum * (2 ^ from) THEN from
    ELSE FloatExp(a, b, from + 1)

\* The float nearest to the rational a/b units (round-to-nearest-even).
Fl(a, b) ==
    IF a < 0 THEN 0 - (LET q == Quantum * (2 ^ FloatExp(0 - a, b, 0))
                       IN  RoundHalfEven(0 - a, b * q) * q)
    ELSE LET q == Quantum * (2 ^ FloatExp(a, b, 0))
         IN  RoundHalfEven(a, b * q) * q

\* float("n/d"): the float nearest to the decimal n/d.
Dec(n, d) == Fl(n * Scale, d)

\* Python float operators: the exact result, rounded.
FSub(x, y) == Fl(x - y, 1)
FAdd(x, y) == Fl(x + y, 1)
FDivInt(x, n) == Fl(x, n)
FMulInt(i, x) == Fl(i * x, 1)

\* round(x, ndigits) of a float x >= 0: the exact value of x rounded half-even
\* to ndigits decimal places, then the float nearest to that decimal.
PyRound(x, ndigits) ==
    IF ndigits >= FracBits THEN x
    ELSE LET du == Scale \div (10 ^ ndigits)
         IN  Fl(RoundHalfEven(x, du) * du, 1)

\* ------------------------------------------------------------------------
\* Strings: a str is the sequence of its characters
\* ------------------------------------------------------------------------

LowerAlpha == << "a", "b", "c", "d", "e", "f", "g", "h", "i", "j", "k", "l", "m",
                 "n", "o", "p", "q", "r", "s", "t", "u", "v", "w", "x", "y", "z" >>
UpperAlpha == << "A", "B", "C", "D", "E", "F", "G", "H", "I", "J", "K", "L", "M",
                 "N", "O", "P", "Q", "R", "S", "T", "U", "V", "W", "X", "Y", "Z" >>

IsLowerChar(c) == \E k \in DOMAIN LowerAlpha : LowerAlpha[k] = c
IsUpperChar(c) == \E k \in DOMAIN UpperAlpha : UpperAlpha[k] = c

\* str.upper()
UpperChar(c) ==
    IF IsLowerChar(c)
    THEN UpperAlpha[CHOOSE k \in DOMAIN LowerAlpha : LowerAlpha[k] = c]
    ELSE c
StrUpper(s) == [k \in DOMAIN s |-> UpperChar(s[k])]

\* str.isupper(): at least one cased character, and no lowercase one.
StrIsUpper(s) ==
    /\ \E k \in DOMAIN s : IsUpperChar(s[k])
    /\ \A k \in DOMAIN s : ~IsLowerChar(s[k])

\* t in s
StrContains(s, t) ==
    \E k \in 0..(Len(s) - Len(t)) : \A j \in 1..Len(t) : s[k + j] = t[j]

USDT == << "U", "S", "D", "T" >>
BUY == << "B", "U", "Y" >>
SELL == << "S", "E", "L", "L" >>
GTC == << "G", "T", "C" >>
IOC == << "I", "O", "C" >>
FOK == << "F", "O", "K" >>
LIMIT == << "L", "I", "M", "I", "T" >>
MARKET == << "M", "A", "R", "K", "E", "T" >>

\* ------------------------------------------------------------------------
\* Values
\* ------------------------------------------------------------------------

\* Optional[T]: None is the empty sequence, a value v is <<v>>.
None == << >>
Some(v) == << v >>
IsNone(o) == o = << >>

\* What a call hands back to its caller.
ReturnNone == [tag |-> "None"]
ReturnValue(v) == [tag |-> "value", value |-> v]
Raised(exc) == [tag |-> "raised", exc |-> exc]
NotReturned == [tag |-> "running"]

\* The exception classes the builders' except clauses name; every error the
\* vendor client raises is an instance of the last one.
BinanceAPIException == "BinanceAPIException"
BinanceOrderException == "BinanceOrderException"
OtherException == "Exception"
Failures == {BinanceAPIException, BinanceOrderException, OtherException}
Outcomes == {"ok"} \cup Failures

\* ------------------------------------------------------------------------
\* State
\* ------------------------------------------------------------------------

VARIABLES
    pc,         \* where the running call stands ("idle" before, "done" after)
    call,       \* the running call: the builder and its arguments
    loc,        \* the running call's local variables
    remote,     \* every request the call has issued, in order, with its outcome
    result,     \* what the call returned
    exchange    \* the remote side: symbol metadata, next order id, open orders

vars == << pc, call, loc, remote, result, exchange >>

\* ------------------------------------------------------------------------
\* Inputs of the calls and states of the remote side
\* ------------------------------------------------------------------------

BTCUSDT == << "B", "T", "C", "U", "S", "D", "T" >>
ETHUSDT == << "E", "T", "H", "U", "S", "D", "T" >>
XRPUSDT == << "X", "R", "P", "U", "S", "D", "T" >>

\* A listed symbol, a well-formed symbol the exchange does not list, and a
\* symbol that fails the format check.
Symbols == { BTCUSDT, XRPUSDT, << "b", "t", "c", "u", "s", "d", "t" >> }

Sides == { BUY, SELL, << "b", "u", "y" >>, << "H", "O", "L", "D" >> }

TimesInForce == { GTC, IOC, FOK, << "g", "t", "c" >> }

OrderTypes == { LIMIT, MARKET, << "S", "T", "O", "P" >> }

\* -1.0, 0.0, 0.3 and 1.5
Quantities == { 0 - Scale, 0, Dec(3, 10), Dec(3, 2) }

\* -1.0, 0.0, 0.3 and 1.0
Prices == { 0 - Scale, 0, Dec(3, 10), Dec(1, 1) }

\* Grid bounds: -1.0, 0.0, 0.1, 0.5 and 3.0
GridBounds == { 0 - Scale, 0, Dec(1, 10), Dec(1, 2), Dec(3, 1) }

\* What the ticker may quote: 0.1, 0.3, 1.0 and 3.0
TickerPrices == { Dec(1, 10), Dec(3, 10), Dec(1, 1), Dec(3, 1) }

\* What the ticker may quote during a TWAP: 0.3 and 1.0
TwapQuotes == { Dec(3, 10), Dec(1, 1) }

\* duration_minutes
Durations == { 0, 1, 2 }

\* What futures_exchange_info() lists: ETHUSDT, then BTCUSDT with a quantity
\* precision up to MaxPrec and the price precision that complements it, or
\* with the precision keys missing.
SymbolInfo(symbol, qp, pp) ==
    [symbol |-> symbol, quantityPrecision |-> qp, pricePrecision |-> pp]
ExchangeInfos ==
    { << SymbolInfo(ETHUSDT, Some(0), Some(0)),
         SymbolInfo(BTCUSDT, Some(qp), Some(MaxPrec - qp)) >> : qp \in 0..MaxPrec }
    \cup { << SymbolInfo(ETHUSDT, Some(0), Some(0)), SymbolInfo(BTCUSDT, None, None) >> }

NoCall == [builder |-> "none"]
NoLocals == [none |-> TRUE]

Init ==
    /\ pc = "idle"
    /\ call = NoCall
    /\ loc = NoLocals
    /\ remote = << >>
    /\ result = NotReturned
    /\ \E info \in ExchangeInfos :
         exchange = [symbols |-> info, nextId |-> 2, open |-> {1}]

\* ------------------------------------------------------------------------
\* BasicBot: validators and precision formatter
\* ------------------------------------------------------------------------

ValidateSymbol(symbol) ==
    /\ Len(symbol) > 0
    /\ StrIsUpper(symbol) /\ StrContains(symbol, USDT)

ValidateQuantity(quantity) == quantity > 0

\* A validator that lets a price of zero through.
ValidatePrice_Mut(price) == price >= 0

ValidatePrice(price) == price > 0

\* A side check that was left out.
InvalidSide_Mut(side) == FALSE

\* side.upper() not in ['BUY', 'SELL']
InvalidSide(side) == StrUpper(side) \notin {BUY, SELL}

\* dict.get(key, default) on an optional entry
DictGet(entry, default) == IF IsNone(entry) THEN default ELSE entry[1]

\* get_symbol_info: `out` is how futures_exchange_info() ended.
\* A lookup that falls back on the first listed symbol.
GetSymbolInfo_Mut(symbol, out) ==
    LET hits == { k \in DOMAIN exchange.symbols :
                    exchange.symbols[k].symbol = symbol }
    IN  IF hits = {} \/ out # "ok" THEN Some(exchange.symbols[1])
        ELSE Some(exchange.symbols[CHOOSE k \in hits : \A h \in hits : k <= h])

GetSymbolInfo(symbol, out) ==
    IF out # "ok" THEN None
    ELSE LET hits == { k \in DOMAIN exchange.symbols :
                         exchange.symbols[k].symbol = symbol }
         IN  IF hits = {} THEN None
             ELSE Some(exchange.symbols[CHOOSE k \in hits : \A h \in hits : k <= h])

FormatQuantity(symbol, quantity, out) ==
    LET symbol_info == GetSymbolInfo(symbol, out)
    IN  IF IsNone(symbol_info) THEN None
        ELSE Some(PyRound(quantity,
                          DictGet(symbol_info[1].quantityPrecision, DefaultPrecision)))

FormatPrice(symbol, price, out) ==
    LET symbol_info == GetSymbolInfo(symbol, out)
    IN  IF IsNone(symbol_info) THEN None
        ELSE Some(PyRound(price,
                          DictGet(symbol_info[1].pricePrecision, DefaultPrecision)))

\* get_symbol_info has one `except Exception` clause: the class of the error
\* makes no difference to it.
InfoOutcomes == {"ok", OtherException}

\* ------------------------------------------------------------------------
\* The remote side
\* ------------------------------------------------------------------------

Request(op, params, out) == [op |-> op, params |-> params, out |-> out]

ExchangeInfoRequest(out) == Request("futures_exchange_info", << >>, out)

\* The mapping futures_create_order returns for an accepted order.
OrderResponse(params, id) ==
    [orderId |-> id, symbol |-> params.symbol, side |-> params.side,
     type |-> params.type, origQty |-> params.quantity, status |-> "NEW"]

\* A builder that hands back only the id of the order.
Returned_Mut(order) == [orderId |-> order.orderId]

\* `return order`: the mapping the client returned, itself.
Returned(order) == order

\* A remote side that forgets the order it accepted.
Accept_Mut(order) == [exchange EXCEPT !.nextId = @ + 1]

\* The remote side after it accepted the order `order`.
Accept(order) ==
    [exchange EXCEPT !.nextId = @ + 1, !.open = @ \cup {order.orderId}]

\* ------------------------------------------------------------------------
\* MarketOrders.place_market_order
\* ------------------------------------------------------------------------

MarketValidation(c) ==
    /\ ValidateSymbol(c.symbol)
    /\ ~InvalidSide(c.side)
    /\ ValidateQuantity(c.quantity)

\* An except chain without the final `except Exception` clause.
MarketExcept_Mut(exc) ==
    CASE exc = BinanceAPIException -> ReturnNone
      [] exc = BinanceOrderException -> ReturnNone
      [] OTHER -> Raised(exc)

\* except BinanceAPIException / BinanceOrderException / Exception
MarketExcept(exc) ==
    CASE exc = BinanceAPIException -> ReturnNone
      [] exc = BinanceOrderException -> ReturnNone
      [] OTHER -> ReturnNone

\* A call that submits again after a failed submission.
MarketAfterOrder_Mut(out) == IF out = "ok" THEN "done" ELSE "market_create_order"

\* Where the call stands once futures_create_order has answered: both the
\* try body and every except clause return.
MarketAfterOrder(out) == "done"

PlaceMarketOrder ==
    /\ pc = "idle"
    /\ \E symbol \in Symbols, side \in Sides, quantity \in Quantities,
          reduce_only \in BOOLEAN :
         LET c == [builder |-> "market", symbol |-> symbol, side |-> side,
                   quantity |-> quantity, reduce_only |-> reduce_only]
         IN  /\ call' = c
             /\ IF MarketValidation(c)
                THEN pc' = "market_format_quantity" /\ result' = NotReturned
                ELSE pc' = "done" /\ result' = ReturnNone
    /\ loc' = [formatted_quantity |-> None]
    /\ UNCHANGED << remote, exchange >>

MarketFormatQuantity ==
    /\ pc = "market_format_quantity"
    /\ \E out \in InfoOutcomes :
         LET formatted_quantity == FormatQuantity(call.symbol, call.quantity, out)
         IN  /\ remote' = Append(remote, ExchangeInfoRequest(out))
             /\ loc' = [loc EXCEPT !.formatted_quantity = formatted_quantity]
             /\ IF IsNone(formatted_quantity)
                THEN pc' = "done" /\ result' = ReturnNone
                ELSE pc' = "market_create_order" /\ result' = result
    /\ UNCHANGED << call, exchange >>

MarketCreateOrder ==
    /\ pc = "market_create_order"
    /\ \E out \in Outcomes :
         LET params == [symbol |-> call.symbol, side |-> StrUpper(call.side),
                        type |-> "MARKET", quantity |-> loc.formatted_quantity[1],
                        reduceOnly |-> call.reduce_only]
             order == OrderResponse(params, exchange.nextId)
         IN  /\ remote' = Append(remote, Request("futures_create_order", params, out))
             /\ IF out = "ok"
                THEN result' = ReturnValue(Returned(order)) /\ exchange' = Accept(order)
                ELSE result' = MarketExcept(out) /\ exchange' = exchange
         /\ pc' = MarketAfterOrder(out)
    /\ UNCHANGED << call, loc >>

\* ------------------------------------------------------------------------
\* LimitOrders.place_limit_order
\* ------------------------------------------------------------------------

LimitValidation(c) ==
    /\ ValidateSymbol(c.symbol)
    /\ ~InvalidSide(c.side)
    /\ ValidateQuantity(c.quantity)
    /\ ValidatePrice(c.price)
    /\ c.time_in_force \in {GTC, IOC, FOK}

\* An except chain whose last clause raises again.
LimitExcept_Mut(exc) ==
    CASE exc = BinanceAPIException -> ReturnNone
      [] exc = BinanceOrderException -> ReturnNone
      [] OTHER -> Raised(exc)

LimitExcept(exc) ==
    CASE exc = BinanceAPIException -> ReturnNone
      [] exc = BinanceOrderException -> ReturnNone
      [] OTHER -> ReturnNone

PlaceLimitOrder ==
    /\ pc = "idle"
    /\ \E symbol \in Symbols, side \in Sides, quantity \in Quantities,
          price \in Prices, time_in_force \in TimesInForce, reduce_only \in BOOLEAN :
         LET c == [builder |-> "limit", symbol |-> symbol, side |-> side,
                   quantity |-> quantity, price |-> price,
                   time_in_force |-> time_in_force, reduce_only |-> reduce_only]
         IN  /\ call' = c
             /\ IF LimitValidation(c)
                THEN pc' = "limit_format_quantity" /\ result' = NotReturned
                ELSE pc' = "done" /\ result' = ReturnNone
    /\ loc' = [formatted_quantity |-> None, formatted_price |-> None]
    /\ UNCHANGED << remote, exchange >>

LimitFormatQuantity ==
    /\ pc = "limit_format_quantity"
    /\ \E out \in InfoOutcomes :
         /\ remote' = Append(remote, ExchangeInfoRequest(out))
         /\ loc' = [loc EXCEPT !.formatted_quantity =
                                  FormatQuantity(call.symbol, call.quantity, out)]
    /\ pc' = "limit_format_price"
    /\ UNCHANGED << call, result, exchange >>

LimitFormatPrice ==
    /\ pc = "limit_format_price"
    /\ \E out \in InfoOutcomes :
         LET formatted_price == FormatPrice(call.symbol, call.price, out)
         IN  /\ remote' = Append(remote, ExchangeInfoRequest(out))
             /\ loc' = [loc EXCEPT !.formatted_price = formatted_price]
             /\ IF IsNone(loc.formatted_quantity) \/ IsNone(formatted_price)
                THEN pc' = "done" /\ result' = ReturnNone
                ELSE pc' = "limit_create_order" /\ result' = result
    /\ UNCHANGED << call, exchange >>

LimitCreateOrder ==
    /\ pc = "limit_create_order"
    /\ \E out \in Outcomes :
         LET params == [symbol |-> call.symbol, side |-> StrUpper(call.side),
                        type |-> "LIMIT", quantity |-> loc.formatted_quantity[1],
                        price |-> loc.formatted_price[1],
                        timeInForce |-> call.time_in_force,
                        reduceOnly |-> call.reduce_only]
             order == OrderResponse(params, exchange.nextId)
         IN  /\ remote' = Append(remote, Request("futures_create_order", params, out))
             /\ IF out = "ok"
                THEN result' = ReturnValue(Returned(order)) /\ exchange' = Accept(order)
                ELSE result' = LimitExcept(out) /\ exchange' = exchange
    /\ pc' = "done"
    /\ UNCHANGED << call, loc >>

\* ------------------------------------------------------------------------
\* StopLimitOrders.place_stop_limit_order
\* ------------------------------------------------------------------------

StopLimitValidation(c) ==
    /\ ValidateSymbol(c.symbol)
    /\ ~InvalidSide(c.side)
    /\ ValidateQuantity(c.quantity)
    /\ ~(~ValidatePrice(c.stop_price) \/ ~ValidatePrice(c.limit_price))

StopLimitExcept(exc) ==
    CASE exc = BinanceAPIException -> ReturnNone
      [] exc = BinanceOrderException -> ReturnNone
      [] OTHER -> ReturnNone

PlaceStopLimitOrder ==
    /\ pc = "idle"
    /\ \E symbol \in Symbols, side \in Sides, quantity \in Quantities,
          stop_price \in Prices, limit_price \in Prices, reduce_only \in BOOLEAN :
         LET c == [builder |-> "stop_limit", symbol |-> symbol, side |-> side,
                   quantity |-> quantity, stop_price |-> stop_price,
                   limit_price |-> limit_price, reduce_only |-> reduce_only]
         IN  /\ call' = c
             /\ IF StopLimitValidation(c)
                THEN pc' = "stop_limit_format_quantity" /\ result' = NotReturned
                ELSE pc' = "done" /\ result' = ReturnNone
    /\ loc' = [formatted_quantity |-> None, formatted_stop_price |-> None,
               formatted_limit_price |-> None]
    /\ UNCHANGED << remote, exchange >>

StopLimitFormatQuantity ==
    /\ pc = "stop_limit_format_quantity"
    /\ \E out \in InfoOutcomes :
         /\ remote' = Append(remote, ExchangeInfoRequest(out))
         /\ loc' = [loc EXCEPT !.formatted_quantity =
                                  FormatQuantity(call.symbol, call.quantity, out)]
    /\ pc' = "stop_limit_format_stop_price"
    /\ UNCHANGED << call, result, exchange >>

StopLimitFormatStopPrice ==
    /\ pc = "stop_limit_format_stop_price"
    /\ \E out \in InfoOutcomes :
         /\ remote' = Append(remote, ExchangeInfoRequest(out))
         /\ loc' = [loc EXCEPT !.formatted_stop_price =
                                  FormatPrice(call.symbol, call.stop_price, out)]
    /\ pc' = "stop_limit_format_limit_price"
    /\ UNCHANGED << call, result, exchange >>

StopLimitFormatLimitPrice ==
    /\ pc = "stop_limit_format_limit_price"
    /\ \E out \in InfoOutcomes :
         LET formatted_limit_price == FormatPrice(call.symbol, call.limit_price, out)
         IN  /\ remote' = Append(remote, ExchangeInfoRequest(out))
             /\ loc' = [loc EXCEPT !.formatted_limit_price = formatted_limit_price]
             /\ IF \/ IsNone(loc.formatted_quantity)
                   \/ IsNone(loc.formatted_stop_price)
                   \/ IsNone(formatted_limit_price)
                THEN pc' = "done" /\ result' = ReturnNone
                ELSE pc' = "stop_limit_create_order" /\ result' = result
    /\ UNCHANGED << call, exchange >>

StopLimitCreateOrder ==
    /\ pc = "stop_limit_create_order"
    /\ \E out \in Outcomes :
         LET params == [symbol |-> call.symbol, side |-> StrUpper(call.side),
                        type |-> "STOP", quantity |-> loc.formatted_quantity[1],
                        stopPrice |-> loc.formatted_stop_price[1],
                        price |-> loc.formatted_limit_price[1],
                        timeInForce |-> GTC, reduceOnly |-> call.reduce_only]
             order == OrderResponse(params, exchange.nextId)
         IN  /\ remote' = Append(remote, Request("futures_create_order", params, out))
             /\ IF out = "ok"
                THEN result' = ReturnValue(Returned(order)) /\ exchange' = Accept(order)
                ELSE result' = StopLimitExcept(out) /\ exchange' = exchange
    /\ pc' = "done"
    /\ UNCHANGED << call, loc >>

\* ------------------------------------------------------------------------
\* OCOOrders.place_oco_order and _cancel_oco_orders
\* ------------------------------------------------------------------------

OcoValidation(c) ==
    /\ ValidateSymbol(c.symbol)
    /\ ~InvalidSide(c.side)
    /\ ValidateQuantity(c.quantity)
    /\ \A p \in {c.price, c.stop_price, c.limit_price} : ValidatePrice(p)

\* Protective orders on the requested side itself.
OppositeSide_Mut(side) == StrUpper(side)

\* 'SELL' if side.upper() == 'BUY' else 'BUY'
OppositeSide(side) == IF StrUpper(side) = BUY THEN SELL ELSE BUY

\* A cleanup that cancels nothing.
OcoToCancel_Mut(orders) == << >>

\* The orders _cancel_oco_orders walks: orders.items(), in insertion order.
OcoToCancel(orders) == orders

\* Except clauses that always cancel the order that was open before the call.
OcoExcept_Mut(exc, orders) ==
    << [key |-> "stop_loss", order |-> [orderId |-> 1]] >>

\* Every except clause of place_oco_order cancels what was placed and returns
\* None; with nothing left to cancel the call is over.
OcoExcept(exc, orders) ==
    CASE exc = BinanceAPIException -> OcoToCancel(orders)
      [] exc = BinanceOrderException -> OcoToCancel(orders)
      [] OTHER -> OcoToCancel(orders)

\* A cleanup that finds no order id to cancel.
HasOrderId_Mut(order) == FALSE

\* `if order and 'orderId' in order`
HasOrderId(order) == "orderId" \in DOMAIN order

PlaceOcoOrder ==
    /\ pc = "idle"
    /\ \E symbol \in Symbols, side \in Sides, quantity \in Quantities,
          price \in Prices, stop_price \in Prices, limit_price \in Prices,
          reduce_only \in BOOLEAN :
         LET c == [builder |-> "oco", symbol |-> symbol, side |-> side,
                   quantity |-> quantity, price |-> price, stop_price |-> stop_price,
                   limit_price |-> limit_price, reduce_only |-> reduce_only]
         IN  /\ call' = c
             /\ IF OcoValidation(c)
                THEN pc' = "oco_format_quantity" /\ result' = NotReturned
                ELSE pc' = "done" /\ result' = ReturnNone
    /\ loc' = [formatted_quantity |-> None, formatted_stop_price |-> None,
               formatted_limit_price |-> None, orders |-> << >>, to_cancel |-> << >>]
    /\ UNCHANGED << remote, exchange >>

OcoFormatQuantity ==
    /\ pc = "oco_format_quantity"
    /\ \E out \in InfoOutcomes :
         /\ remote' = Append(remote, ExchangeInfoRequest(out))
         /\ loc' = [loc EXCEPT !.formatted_quantity =
                                  FormatQuantity(call.symbol, call.quantity, out)]
    /\ pc' = "oco_format_stop_price"
    /\ UNCHANGED << call, result, exchange >>

OcoFormatStopPrice ==
    /\ pc = "oco_format_stop_price"
    /\ \E out \in InfoOutcomes :
         /\ remote' = Append(remote, ExchangeInfoRequest(out))
         /\ loc' = [loc EXCEPT !.formatted_stop_price =
                                  FormatPrice(call.symbol, call.stop_price, out)]
    /\ pc' = "oco_format_limit_price"
    /\ UNCHANGED << call, result, exchange >>

OcoFormatLimitPrice ==
    /\ pc = "oco_format_limit_price"
    /\ \E out \in InfoOutcomes :
         LET formatted_limit_price == FormatPrice(call.symbol, call.limit_price, out)
         IN  /\ remote' = Append(remote, ExchangeInfoRequest(out))
             /\ loc' = [loc EXCEPT !.formatted_limit_price = formatted_limit_price]
             /\ IF \/ IsNone(loc.formatted_quantity)
                   \/ IsNone(loc.formatted_stop_price)
                   \/ IsNone(formatted_limit_price)
                THEN pc' = "done" /\ result' = ReturnNone
                ELSE pc' = "oco_stop_loss" /\ result' = result
    /\ UNCHANGED << call, exchange >>

\* After an exception with `pending` left to cancel: cancel, or return None.
OcoAfterExcept(pending) ==
    IF pending = << >>
    THEN pc' = "done" /\ result' = ReturnNone
    ELSE pc' = "oco_cancel" /\ result' = result

OcoStopLoss ==
    /\ pc = "oco_stop_loss"
    /\ \E out \in Outcomes :
         LET params == [symbol |-> call.symbol, side |-> OppositeSide(call.side),
                        type |-> "STOP_MARKET",
                        quantity |-> loc.formatted_quantity[1],
                        stopPrice |-> loc.formatted_stop_price[1],
                        reduceOnly |-> call.reduce_only]
             stop_order == OrderResponse(params, exchange.nextId)
         IN  /\ remote' = Append(remote, Request("futures_create_order", params, out))
             /\ IF out = "ok"
                THEN /\ loc' = [loc EXCEPT !.orders =
                                   << [key |-> "stop_loss", order |-> stop_order] >>]
                     /\ exchange' = Accept(stop_order)
                     /\ pc' = "oco_take_profit"
                     /\ result' = result
                ELSE /\ loc' = [loc EXCEPT !.to_cancel = OcoExcept(out, loc.orders)]
                     /\ exchange' = exchange
                     /\ OcoAfterExcept(OcoExcept(out, loc.orders))
    /\ UNCHANGED call

OcoTakeProfit ==
    /\ pc = "oco_take_profit"
    /\ \E out \in Outcomes :
         LET params == [symbol |-> call.symbol, side |-> OppositeSide(call.side),
                        type |-> "TAKE_PROFIT_MARKET",
                        quantity |-> loc.formatted_quantity[1],
                        stopPrice |-> loc.formatted_limit_price[1],
                        reduceOnly |-> call.reduce_only]
             take_profit_order == OrderResponse(params, exchange.nextId)
         IN  /\ remote' = Append(remote, Request("futures_create_order", params, out))
             /\ IF out = "ok"
                THEN /\ loc' = [loc EXCEPT !.orders = Append(@,
                                   [key |-> "take_profit", order |-> take_profit_order])]
                     /\ exchange' = Accept(take_profit_order)
                     /\ pc' = "done"
                     /\ result' = ReturnValue(loc'.orders)
                ELSE /\ loc' = [loc EXCEPT !.to_cancel = OcoExcept(out, loc.orders)]
                     /\ exchange' = exchange
                     /\ OcoAfterExcept(OcoExcept(out, loc.orders))
    /\ UNCHANGED call

\* One turn of the loop of _cancel_oco_orders; a failed cancel is logged and
\* the loop goes on.
OcoCancelOrder ==
    /\ pc = "oco_cancel"
    /\ LET order == Head(loc.to_cancel).order
           rest == Tail(loc.to_cancel)
       IN  /\ IF HasOrderId(order)
              THEN \E out \in InfoOutcomes :
                     /\ remote' = Append(remote, Request("futures_cancel_order",
                            [symbol |-> call.symbol, orderId |-> order.orderId], out))
                     /\ exchange' = IF out = "ok"
                                    THEN [exchange EXCEPT !.open = @ \ {order.orderId}]
                                    ELSE exchange
              ELSE UNCHANGED << remote, exchange >>
           /\ loc' = [loc EXCEPT !.to_cancel = rest]
           /\ OcoAfterExcept(rest)
    /\ UNCHANGED call

\* ------------------------------------------------------------------------
\* GridOrders.place_grid_orders
\* ------------------------------------------------------------------------

\* A validation phase without the check of order_type.
GridValidation_Mut(c) ==
    /\ ValidateSymbol(c.symbol)
    /\ ~(~ValidatePrice(c.lower_price) \/ ~ValidatePrice(c.upper_price))
    /\ ~(c.lower_price >= c.upper_price)
    /\ ~(c.grid_levels <= 0)
    /\ ValidateQuantity(c.quantity_per_grid)

GridValidation(c) ==
    /\ ValidateSymbol(c.symbol)
    /\ ~(~ValidatePrice(c.lower_price) \/ ~ValidatePrice(c.upper_price))
    /\ ~(c.lower_price >= c.upper_price)
    /\ ~(c.grid_levels <= 0)
    /\ ValidateQuantity(c.quantity_per_grid)
    /\ c.order_type \in {LIMIT, MARKET}

\* price_step = (upper_price - lower_price) / grid_levels
PriceStep(lower_price, upper_price, grid_levels) ==
    FDivInt(FSub(upper_price, lower_price), grid_levels)

\* [lower_price + i * price_step for i in range(grid_levels + 1)]; the point
\* of index i is element i + 1 of the sequence.
GridPrices(lower_price, upper_price, grid_levels) ==
    LET price_step == PriceStep(lower_price, upper_price, grid_levels)
    IN  [k \in 1..(grid_levels + 1) |-> FAdd(lower_price, FMulInt(k - 1, price_step))]

\* Loops that also take the ladder point equal to the current price.
GridTakes_Mut(side, price, current_price) ==
    IF side = BUY THEN price <= current_price ELSE price >= current_price

\* `if price < current_price` of the buy loop, `if price > current_price` of
\* the sell loop.
GridTakes(side, price, current_price) ==
    IF side = BUY THEN price < current_price ELSE price > current_price

\* Loops that go through the ladder without looking at the current price.
GridNextPoint_Mut(grid_prices, current_price, side, from) ==
    IF from <= Len(grid_prices) THEN from ELSE 0

\* The first ladder position >= from that the loop of `side` takes, 0 if none.
GridNextPoint(grid_prices, current_price, side, from) ==
    LET takes == { k \in from..Len(grid_prices) :
                     GridTakes(side, grid_prices[k], current_price) }
    IN  IF takes = {} THEN 0 ELSE CHOOSE k \in takes : \A h \in takes : k <= h

\* Loops in the other order: the sell loop runs to its end, then the buy loop.
GridAdvance_Mut(grid_prices, current_price, side, from) ==
    LET k == GridNextPoint(grid_prices, current_price, side, from)
        b == GridNextPoint(grid_prices, current_price, BUY, 1)
        s == GridNextPoint(grid_prices, current_price, SELL, 1)
    IN  IF side = BUY /\ from = 1 /\ s # 0 THEN [side |-> SELL, k |-> s]
        ELSE IF k # 0 THEN [side |-> side, k |-> k]
        ELSE IF side = SELL /\ b # 0 THEN [side |-> BUY, k |-> b]
        ELSE [side |-> SELL, k |-> 0]

\* Where the two loops stand after position from - 1 of the loop of `side`:
\* the buy loop runs to its end, then the sell loop.
GridAdvance(grid_prices, current_price, side, from) ==
    LET k == GridNextPoint(grid_prices, current_price, side, from)
        s == GridNextPoint(grid_prices, current_price, SELL, 1)
    IN  IF k # 0 THEN [side |-> side, k |-> k]
        ELSE IF side = BUY /\ s # 0 THEN [side |-> SELL, k |-> s]
        ELSE [side |-> SELL, k |-> 0]

GridResult(buy_orders, sell_orders) ==
    ReturnValue([buy_orders |-> buy_orders, sell_orders |-> sell_orders,
                 total_buy_orders |-> Len(buy_orders),
                 total_sell_orders |-> Len(sell_orders)])

\* Except clauses that drop the orders already placed.
GridPartial_Mut(buy_orders, sell_orders) == ReturnNone

GridPartial(buy_orders, sell_orders) ==
    IF buy_orders # << >> \/ sell_orders # << >>
    THEN ReturnValue([buy_orders |-> buy_orders, sell_orders |-> sell_orders])
    ELSE ReturnNone

GridExcept(exc, buy_orders, sell_orders) ==
    CASE exc = BinanceAPIException -> GridPartial(buy_orders, sell_orders)
      [] exc = BinanceOrderException -> GridPartial(buy_orders, sell_orders)
      [] OTHER -> GridPartial(buy_orders, sell_orders)

PlaceGridOrders ==
    /\ pc = "idle"
    /\ \E symbol \in Symbols, lower_price \in GridBounds, upper_price \in GridBounds,
          grid_levels \in 0..MaxLevels, quantity_per_grid \in Quantities,
          order_type \in OrderTypes :
         LET c == [builder |-> "grid", symbol |-> symbol, lower_price |-> lower_price,
                   upper_price |-> upper_price, grid_levels |-> grid_levels,
                   quantity_per_grid |-> quantity_per_grid, order_type |-> order_type]
         IN  /\ call' = c
             /\ IF GridValidation(c)
                THEN /\ pc' = "grid_format_quantity"
                     /\ result' = NotReturned
                     /\ loc' = [grid_prices |->
                                   GridPrices(lower_price, upper_price, grid_levels),
                                formatted_quantity |-> None, buy_orders |-> << >>,
                                sell_orders |-> << >>, current_price |-> None,
                                side |-> BUY, k |-> 0, formatted_price |-> None,
                                submitted |-> << >>]
                ELSE /\ pc' = "done"
                     /\ result' = ReturnNone
                     /\ loc' = NoLocals
    /\ UNCHANGED << remote, exchange >>

GridFormatQuantity ==
    /\ pc = "grid_format_quantity"
    /\ \E out \in InfoOutcomes :
         LET formatted_quantity ==
                 FormatQuantity(call.symbol, call.quantity_per_grid, out)
         IN  /\ remote' = Append(remote, ExchangeInfoRequest(out))
             /\ loc' = [loc EXCEPT !.formatted_quantity = formatted_quantity]
             /\ IF IsNone(formatted_quantity)
                THEN pc' = "done" /\ result' = ReturnNone
                ELSE pc' = "grid_ticker" /\ result' = result
    /\ UNCHANGED << call, exchange >>

\* The loops from `at` on: the next request, or the result.
GridContinue(at, buy_orders, sell_orders) ==
    IF at.k # 0
    THEN pc' = "grid_format_price" /\ result' = result
    ELSE pc' = "done" /\ result' = GridResult(buy_orders, sell_orders)

GridTicker ==
    /\ pc = "grid_ticker"
    /\ \/ \E price \in TickerPrices :
            LET at == GridAdvance(loc.grid_prices, price, BUY, 1)
            IN  /\ remote' = Append(remote, Request("futures_symbol_ticker",
                                   [symbol |-> call.symbol, price |-> price], "ok"))
                /\ loc' = [loc EXCEPT !.current_price = Some(price),
                                      !.side = at.side, !.k = at.k]
                /\ GridContinue(at, loc.buy_orders, loc.sell_orders)
       \/ \E out \in Failures :
            /\ remote' = Append(remote, Request("futures_symbol_ticker",
                                   [symbol |-> call.symbol], out))
            /\ loc' = loc
            /\ pc' = "done"
            /\ result' = GridExcept(out, loc.buy_orders, loc.sell_orders)
    /\ UNCHANGED << call, exchange >>

GridFormatPrice ==
    /\ pc = "grid_format_price"
    /\ \E out \in InfoOutcomes :
         LET formatted_price == FormatPrice(call.symbol, loc.grid_prices[loc.k], out)
             at == GridAdvance(loc.grid_prices, loc.current_price[1], loc.side, loc.k + 1)
         IN  /\ remote' = Append(remote, ExchangeInfoRequest(out))
             /\ IF IsNone(formatted_price)
                THEN /\ loc' = [loc EXCEPT !.formatted_price = formatted_price,
                                           !.side = at.side, !.k = at.k]
                     /\ GridContinue(at, loc.buy_orders, loc.sell_orders)
                ELSE /\ loc' = [loc EXCEPT !.formatted_price = formatted_price]
                     /\ pc' = "grid_create_order"
                     /\ result' = result
    /\ UNCHANGED << call, exchange >>

GridOrderParams ==
    IF call.order_type = LIMIT
    THEN [symbol |-> call.symbol, side |-> loc.side, type |-> "LIMIT",
          quantity |-> loc.formatted_quantity[1], price |-> loc.formatted_price[1],
          timeInForce |-> GTC]
    ELSE [symbol |-> call.symbol, side |-> loc.side, type |-> "MARKET",
          quantity |-> loc.formatted_quantity[1]]

GridCreateOrder ==
    /\ pc = "grid_create_order"
    /\ \E out \in Outcomes :
         LET params == GridOrderParams
             order == OrderResponse(params, exchange.nextId)
             buy_orders == IF loc.side = BUY THEN Append(loc.buy_orders, order)
                           ELSE loc.buy_orders
             sell_orders == IF loc.side = SELL THEN Append(loc.sell_orders, order)
                            ELSE loc.sell_orders
             at == GridAdvance(loc.grid_prices, loc.current_price[1], loc.side, loc.k + 1)
             submitted == Append(loc.submitted, [side |-> loc.side, k |-> loc.k])
         IN  /\ remote' = Append(remote, Request("futures_create_order", params, out))
             /\ IF out = "ok"
                THEN /\ loc' = [loc EXCEPT !.buy_orders = buy_orders,
                                           !.sell_orders = sell_orders,
                                           !.side = at.side, !.k = at.k,
                                           !.submitted = submitted]
                     /\ exchange' = Accept(order)
                     /\ GridContinue(at, buy_orders, sell_orders)
                ELSE /\ loc' = [loc EXCEPT !.submitted = submitted]
                     /\ exchange' = exchange
                     /\ pc' = "done"
                     /\ result' = GridExcept(out, loc.buy_orders, loc.sell_orders)
    /\ UNCHANGED call

\* ------------------------------------------------------------------------
\* TWAPOrders.place_twap_order
\* ------------------------------------------------------------------------

TwapValidation(c) ==
    /\ ValidateSymbol(c.symbol)
    /\ ~InvalidSide(c.side)
    /\ ValidateQuantity(c.total_quantity)
    /\ ~(c.duration_minutes <= 0 \/ c.num_intervals <= 0)
    /\ c.order_type \in {MARKET, LIMIT}

\* A clip of the whole quantity.
IntervalQuantity_Mut(total_quantity, num_intervals) == total_quantity

\* interval_quantity = total_quantity / num_intervals
IntervalQuantity(total_quantity, num_intervals) == FDivInt(total_quantity, num_intervals)

\* interval_seconds = (duration_minutes * 60) / num_intervals
IntervalSeconds(duration_minutes, num_intervals) ==
    Fl(duration_minutes * 60 * Scale, num_intervals)

\* current_price * 0.999 for a BUY, current_price * 1.001 for a SELL
TwapLimitPrice(side, current_price) ==
    IF StrUpper(side) = BUY THEN Fl(current_price * 999, 1000)
    ELSE Fl(current_price * 1001, 1000)

\* An except clause that returns None whatever was placed.
TwapPartial_Mut(orders) == ReturnNone

\* `return orders if orders else None`
TwapPartial(orders) == IF orders # << >> THEN ReturnValue(orders) ELSE ReturnNone

TwapExcept(exc, orders) ==
    CASE exc = BinanceAPIException -> TwapPartial(orders)
      [] exc = BinanceOrderException -> TwapPartial(orders)
      [] OTHER -> TwapPartial(orders)

\* A loop that sleeps after every order, the last one included.
TwapSleeps_Mut(i, num_intervals) == i <= num_intervals - 1

\* `if i < num_intervals - 1` after an order was placed: sleep before the next.
TwapSleeps(i, num_intervals) == i < num_intervals - 1

PlaceTwapOrder ==
    /\ pc = "idle"
    /\ \E symbol \in Symbols, side \in Sides, total_quantity \in Quantities,
          duration_minutes \in Durations, num_intervals \in 0..MaxIntervals,
          order_type \in OrderTypes :
         LET c == [builder |-> "twap", symbol |-> symbol, side |-> side,
                   total_quantity |-> total_quantity,
                   duration_minutes |-> duration_minutes,
                   num_intervals |-> num_intervals, order_type |-> order_type]
         IN  /\ call' = c
             /\ IF TwapValidation(c)
                THEN /\ pc' = "twap_format_quantity"
                     /\ result' = NotReturned
                     /\ loc' = [interval_quantity |->
                                   IntervalQuantity(total_quantity, num_intervals),
                                interval_seconds |->
                                   IntervalSeconds(duration_minutes, num_intervals),
                                formatted_interval_quantity |-> None,
                                orders |-> << >>, i |-> 0, current_price |-> None,
                                formatted_price |-> None]
                ELSE /\ pc' = "done"
                     /\ result' = ReturnNone
                     /\ loc' = NoLocals
    /\ UNCHANGED << remote, exchange >>

\* A loop that stops one index early.
TwapIterate_Mut(i, orders) ==
    IF i >= call.num_intervals - 1
    THEN pc' = "done" /\ result' = ReturnValue(orders)
    ELSE /\ pc' = IF call.order_type = MARKET THEN "twap_create_order"
                  ELSE "twap_ticker"
         /\ result' = result

\* A loop that runs one index too far.
TwapIterateOnceMore_Mut(i, orders) ==
    IF i >= call.num_intervals + 1
    THEN pc' = "done" /\ result' = ReturnValue(orders)
    ELSE /\ pc' = IF call.order_type = MARKET THEN "twap_create_order"
                  ELSE "twap_ticker"
         /\ result' = result

\* The top of the loop body for index i: past the last index the call returns
\* `orders`; else a MARKET clip goes to the order, a LIMIT clip to the ticker.
TwapIterate(i, orders) ==
    IF i >= call.num_intervals
    THEN pc' = "done" /\ result' = ReturnValue(orders)
    ELSE /\ pc' = IF call.order_type = MARKET THEN "twap_create_order"
                  ELSE "twap_ticker"
         /\ result' = result

TwapFormatQuantity ==
    /\ pc = "twap_format_quantity"
    /\ \E out \in InfoOutcomes :
         LET formatted_interval_quantity ==
                 FormatQuantity(call.symbol, loc.interval_quantity, out)
         IN  /\ remote' = Append(remote, ExchangeInfoRequest(out))
             /\ loc' = [loc EXCEPT !.formatted_interval_quantity =
                                      formatted_interval_quantity]
             /\ IF IsNone(formatted_interval_quantity)
                THEN pc' = "done" /\ result' = ReturnNone
                ELSE TwapIterate(0, loc.orders)
    /\ UNCHANGED << call, exchange >>

TwapTicker ==
    /\ pc = "twap_ticker"
    /\ \/ \E price \in TwapQuotes :
            /\ remote' = Append(remote, Request("futures_symbol_ticker",
                                   [symbol |-> call.symbol, price |-> price], "ok"))
            /\ loc' = [loc EXCEPT !.current_price = Some(price)]
            /\ pc' = "twap_format_price"
            /\ result' = result
       \/ \E out \in Failures :
            /\ remote' = Append(remote, Request("futures_symbol_ticker",
                                   [symbol |-> call.symbol], out))
            /\ loc' = loc
            /\ pc' = "done"
            /\ result' = TwapExcept(out, loc.orders)
    /\ UNCHANGED << call, exchange >>

TwapFormatPrice ==
    /\ pc = "twap_format_price"
    /\ \E out \in InfoOutcomes :
         LET limit_price == TwapLimitPrice(call.side, loc.current_price[1])
             formatted_price == FormatPrice(call.symbol, limit_price, out)
         IN  /\ remote' = Append(remote, ExchangeInfoRequest(out))
             /\ IF IsNone(formatted_price)
                THEN /\ loc' = [loc EXCEPT !.formatted_price = formatted_price,
                                           !.i = @ + 1]
                     /\ TwapIterate(loc.i + 1, loc.orders)
                ELSE /\ loc' = [loc EXCEPT !.formatted_price = formatted_price]
                     /\ pc' = "twap_create_order"
                     /\ result' = result
    /\ UNCHANGED << call, exchange >>

TwapOrderParams ==
    IF call.order_type = MARKET
    THEN [symbol |-> call.symbol, side |-> StrUpper(call.side), type |-> "MARKET",
          quantity |-> loc.formatted_interval_quantity[1]]
    ELSE [symbol |-> call.symbol, side |-> StrUpper(call.side), type |-> "LIMIT",
          quantity |-> loc.formatted_interval_quantity[1],
          price |-> loc.formatted_price[1], timeInForce |-> IOC]

TwapCreateOrder ==
    /\ pc = "twap_create_order"
    /\ \E out \in Outcomes :
         LET params == TwapOrderParams
             order == OrderResponse(params, exchange.nextId)
             orders == Append(loc.orders, order)
         IN  /\ remote' = Append(remote, Request("futures_create_order", params, out))
             /\ IF out = "ok"
                THEN /\ exchange' = Accept(order)
                     /\ IF TwapSleeps(loc.i, call.num_intervals)
                        THEN /\ loc' = [loc EXCEPT !.orders = orders]
                             /\ pc' = "twap_sleep"
                             /\ result' = result
                        ELSE /\ loc' = [loc EXCEPT !.orders = orders, !.i = @ + 1]
                             /\ TwapIterate(loc.i + 1, orders)
                ELSE /\ exchange' = exchange
                     /\ loc' = loc
                     /\ pc' = "done"
                     /\ result' = TwapExcept(out, loc.orders)
    /\ UNCHANGED call

\* time.sleep(interval_seconds): the calling thread blocks, then the loop
\* goes on with the next index.
TwapSleep ==
    /\ pc = "twap_sleep"
    /\ remote' = Append(remote, Request("sleep", [seconds |-> loc.interval_seconds], "ok"))
    /\ loc' = [loc EXCEPT !.i = @ + 1]
    /\ TwapIterate(loc.i + 1, loc.orders)
    /\ UNCHANGED << call, exchange >>

\* ------------------------------------------------------------------------
\* Specification
\* ------------------------------------------------------------------------

Next ==
    \/ PlaceMarketOrder \/ MarketFormatQuantity \/ MarketCreateOrder
    \/ PlaceLimitOrder \/ LimitFormatQuantity \/ LimitFormatPrice \/ LimitCreateOrder
    \/ PlaceStopLimitOrder \/ StopLimitFormatQuantity \/ StopLimitFormatStopPrice
    \/ StopLimitFormatLimitPrice \/ StopLimitCreateOrder
    \/ PlaceOcoOrder \/ OcoFormatQuantity \/ OcoFormatStopPrice
    \/ OcoFormatLimitPrice \/ OcoStopLoss \/ OcoTakeProfit \/ OcoCancelOrder
    \/ PlaceGridOrders \/ GridFormatQuantity \/ GridTicker \/ GridFormatPrice
    \/ GridCreateOrder
    \/ PlaceTwapOrder \/ TwapFormatQuantity \/ TwapTicker \/ TwapFormatPrice
    \/ TwapCreateOrder \/ TwapSleep

Spec == Init /\ [][Next]_vars

\* ------------------------------------------------------------------------
\* Reading the history
\* ------------------------------------------------------------------------

IsCreateOrder(r) == r.op = "futures_create_order"
IsCancelOrder(r) == r.op = "futures_cancel_order"
IsTicker(r) == r.op = "futures_symbol_ticker"
IsAccepted(r) == r.op = "futures_create_order" /\ r.out = "ok"

CreateOrders == SelectSeq(remote, IsCreateOrder)
CancelOrders == SelectSeq(remote, IsCancelOrder)

\* The responses of the accepted orders, in the order they were placed: the
\* remote side numbers them from 2 on (order 1 was open before the call).
Placed ==
    LET accepted == SelectSeq(remote, IsAccepted)
    IN  [j \in DOMAIN accepted |-> OrderResponse(accepted[j].params, j + 1)]

ReturnedNone == pc = "done" /\ result.tag = "None"

\* The quantity and price arguments of a call.
QuantityPriceArguments(c) ==
    CASE c.builder = "market" -> {c.quantity}
      [] c.builder = "limit" -> {c.quantity, c.price}
      [] c.builder = "stop_limit" -> {c.quantity, c.stop_price, c.limit_price}
      [] c.builder = "oco" -> {c.quantity, c.price, c.stop_price, c.limit_price}
      [] c.builder = "twap" -> {c.total_quantity}
      [] c.builder = "grid" -> {c.lower_price, c.upper_price, c.quantity_per_grid}
      [] OTHER -> {}

\* ------------------------------------------------------------------------
\* Claims
\* ------------------------------------------------------------------------

\* C1: a call of any builder with a quantity or price argument <= 0 returns
\* None, and has issued no remote request of any kind.
C1_NonPositiveRejected ==
    (\E v \in QuantityPriceArguments(call) : v <= 0)
        => ReturnedNone /\ remote = << >>

\* C1 witness: an OCO call whose only fault is a reference price of 0 has
\* returned None.
C1_Witness ==
    /\ call.builder = "oco" /\ pc = "done" /\ result.tag = "None"
    /\ ValidateSymbol(call.symbol) /\ ~InvalidSide(call.side)
    /\ call.quantity > 0 /\ call.stop_price > 0 /\ call.limit_price > 0
    /\ call.price = 0

\* C2 as stated: market, limit and stop-limit calls with a side other than
\* BUY/SELL, and limit calls with a time-in-force other than GTC/IOC/FOK,
\* return None without a remote request.
C2_Original ==
    (/\ call.builder \in {"market", "limit", "stop_limit"}
     /\ \/ call.side \notin {BUY, SELL}
        \/ call.builder = "limit" /\ call.time_in_force \notin {GTC, IOC, FOK})
        => ReturnedNone /\ remote = << >>

\* C2, amended: the side is compared after upper-casing, so the calls
\* rejected without a remote request are those whose side, upper-cased, is
\* neither BUY nor SELL, and the limit calls whose time-in-force is not
\* exactly GTC, IOC or FOK.
C2_UnrecognizedRejected ==
    (/\ call.builder \in {"market", "limit", "stop_limit"}
     /\ \/ StrUpper(call.side) \notin {BUY, SELL}
        \/ call.builder = "limit" /\ call.time_in_force \notin {GTC, IOC, FOK})
        => ReturnedNone /\ remote = << >>

\* C2 witness: a stop-limit call whose only fault is its side has returned
\* None.
C2_Witness ==
    /\ call.builder = "stop_limit" /\ pc = "done" /\ result.tag = "None"
    /\ ValidateSymbol(call.symbol) /\ call.quantity > 0
    /\ call.stop_price > 0 /\ call.limit_price > 0
    /\ StrUpper(call.side) \notin {BUY, SELL}

\* The ladder point a submitted grid order stands for.
GridPoint(e) == loc.grid_prices[e.k]

\* C3: in a grid call with snapshot price P every order submitted on the BUY
\* side stands for a ladder point < P, every order submitted on the SELL side
\* for a ladder point > P, and no order stands for a point equal to P; the
\* submissions are exactly the order requests of the history, side by side.
C3_GridSides ==
    (call.builder = "grid" /\ "submitted" \in DOMAIN loc)
        => /\ Len(loc.submitted) = Len(CreateOrders)
           /\ \A j \in DOMAIN loc.submitted :
                LET e == loc.submitted[j]
                IN  /\ CreateOrders[j].params.side = e.side
                    /\ e.side = BUY => GridPoint(e) < loc.current_price[1]
                    /\ e.side = SELL => GridPoint(e) > loc.current_price[1]
                    /\ GridPoint(e) # loc.current_price[1]

\* C3 witness: a finished grid call whose ladder holds the snapshot price,
\* with an order submitted on each side.
C3_Witness ==
    /\ call.builder = "grid" /\ pc = "done" /\ "submitted" \in DOMAIN loc
    /\ ~IsNone(loc.current_price)
    /\ \E k \in DOMAIN loc.grid_prices : loc.grid_prices[k] = loc.current_price[1]
    /\ \E j \in DOMAIN loc.submitted : loc.submitted[j].side = BUY
    /\ \E j \in DOMAIN loc.submitted : loc.submitted[j].side = SELL

\* C4 (stated as claimed): the ladder of an accepted grid call with bounds
\* L < U and N >= 1 levels has N + 1 points, is strictly increasing, starts
\* at L and ends at U.
C4_LadderClaim ==
    (call.builder = "grid" /\ GridValidation(call))
        => LET grid_prices == loc.grid_prices
               N == call.grid_levels
           IN  /\ Len(grid_prices) = N + 1
               /\ \A k \in 1..N : grid_prices[k] < grid_prices[k + 1]
               /\ grid_prices[1] = call.lower_price
               /\ grid_prices[N + 1] = call.upper_price

\* The requests of the history that end a TWAP loop when they raise.
IsLoopFailure(r) ==
    r.op \in {"futures_create_order", "futures_symbol_ticker"} /\ r.out # "ok"

TwapLoopFailed ==
    /\ call.builder = "twap" /\ pc = "done"
    /\ \E j \in DOMAIN remote : IsLoopFailure(remote[j])

\* C5 as stated: when a remote call of the TWAP loop fails after k < n orders
\* were placed, the call returns the list of exactly those k responses, in
\* placement order, and not None.
C5_Original ==
    TwapLoopFailed => result.tag = "value" /\ result.value = Placed

\* C5, amended: when an order submission or a ticker query of the TWAP loop
\* raises after k < n orders were placed, the call returns the list of exactly
\* those k responses, in placement order, if k >= 1, and None if k = 0.
C5_PartialOrNone ==
    TwapLoopFailed
        => /\ Len(Placed) < call.num_intervals
           /\ IsLoopFailure(remote[Len(remote)])
           /\ IF Placed = << >> THEN result.tag = "None"
              ELSE result.tag = "value" /\ result.value = Placed

\* C5 witness: a TWAP call of three clips whose third submission raised has
\* returned the two orders placed before.
C5_Witness ==
    /\ TwapLoopFailed /\ call.num_intervals = 3
    /\ Len(Placed) = 2 /\ result.tag = "value" /\ Len(result.value) = 2

\* A finished TWAP call that entered its loop (the arguments passed the checks
\* and the clip quantity was formatted) and saw no remote request fail.
TwapRanClean ==
    /\ call.builder = "twap" /\ pc = "done" /\ TwapValidation(call)
    /\ ~IsNone(loc.formatted_interval_quantity)
    /\ \A j \in DOMAIN remote : remote[j].out = "ok"

\* C6: an accepted TWAP call in which no remote request fails has attempted
\* exactly num_intervals order submissions, and returns a list of exactly
\* num_intervals entries (the responses, in order), for MARKET and for LIMIT.
C6_OneSubmissionPerClip ==
    TwapRanClean
        => /\ Len(CreateOrders) = call.num_intervals
           /\ result.tag = "value"
           /\ Len(result.value) = call.num_intervals
           /\ result.value = Placed

\* C6 witness: a LIMIT call of three clips has run clean and returned.
C6_Witness ==
    /\ TwapRanClean /\ call.order_type = LIMIT /\ call.num_intervals = 3
    /\ Len(CreateOrders) = 3 /\ result.tag = "value"

\* The quantityPrecision format_quantity rounds to for the call's symbol.
QuantityPrecision ==
    LET symbol_info == GetSymbolInfo(call.symbol, "ok")
    IN  DictGet(symbol_info[1].quantityPrecision, DefaultPrecision)

\* |n * q - total|, as numbers (not as floats).
ClipsError(n, q, total) ==
    IF n * q >= total THEN n * q - total ELSE total - n * q

\* err <= n * (half a unit of the p-th decimal place)
WithinHalfUnits(err, n, p) == 2 * err <= (n * Scale) \div (10 ^ p)

\* err <= n * (half a unit of the p-th decimal place)
\*        + (n * q + total) * 2^-MantBits,
\* the second term being the representation error of the quotient and of the
\* rounded clip.
WithinHalfUnitsAndFloatError(err, n, q, total, p) ==
    2 * (2 ^ MantBits) * err - 2 * (n * q + total)
        <= ((2 ^ MantBits) * n * Scale) \div (10 ^ p)

\* The TWAP call has submitted at least one clip.
TwapSubmitted == call.builder = "twap" /\ CreateOrders # << >>

\* Every clip submitted carries q = round(total_quantity / num_intervals,
\* quantityPrecision).
SameClipQuantity ==
    \A j \in DOMAIN CreateOrders :
        CreateOrders[j].params.quantity
            = PyRound(IntervalQuantity(call.total_quantity, call.num_intervals),
                      QuantityPrecision)

\* C7 as stated: every clip carries the same q = round(total / n, precision),
\* and |n * q - total| <= n * (half a unit of the last decimal place).
C7_Original ==
    TwapSubmitted
        => /\ SameClipQuantity
           /\ WithinHalfUnits(
                 ClipsError(call.num_intervals, CreateOrders[1].params.quantity,
                            call.total_quantity),
                 call.num_intervals, QuantityPrecision)

\* C7, amended: every clip carries the same q = round(total / n, precision),
\* and |n * q - total| <= n * (half a unit of the last decimal place)
\* + (n * q + total) * (the relative rounding error of the float format).
C7_ClipsSumWithinRounding ==
    TwapSubmitted
        => /\ SameClipQuantity
           /\ WithinHalfUnitsAndFloatError(
                 ClipsError(call.num_intervals, CreateOrders[1].params.quantity,
                            call.total_quantity),
                 call.num_intervals, CreateOrders[1].params.quantity,
                 call.total_quantity, QuantityPrecision)

\* C7 witness: a TWAP call has placed all of its three clips, and three times
\* the clip quantity is not the total.
C7_Witness ==
    /\ TwapSubmitted /\ pc = "done" /\ call.num_intervals = 3
    /\ Len(Placed) = 3
    /\ 3 * CreateOrders[1].params.quantity # call.total_quantity

\* The stop-loss order of an OCO call was placed and the take-profit
\* submission then failed.
OcoSecondFailed ==
    /\ call.builder = "oco" /\ Len(CreateOrders) = 2
    /\ CreateOrders[1].params.type = "STOP_MARKET" /\ CreateOrders[1].out = "ok"
    /\ CreateOrders[2].params.type = "TAKE_PROFIT_MARKET"
    /\ CreateOrders[2].out # "ok"

\* C8: once the stop-loss order of an OCO call was placed and the take-profit
\* submission failed, the only cancel request ever issued is one for the
\* stop-loss order's id on the call's symbol; when the call is over exactly
\* that one cancel was issued and the call has returned None, whether the
\* cancel succeeded or raised.
C8_CancelsStopLossOnce ==
    OcoSecondFailed
        => /\ Len(CancelOrders) <= 1
           /\ \A j \in DOMAIN CancelOrders :
                CancelOrders[j].params
                    = [symbol |-> call.symbol, orderId |-> Placed[1].orderId]
           /\ result.tag \in {"running", "None"}
           /\ pc = "done" => Len(CancelOrders) = 1 /\ result.tag = "None"

\* C8 witness: the take-profit submission failed, the cancel of the stop-loss
\* order raised, the call has returned None and the stop-loss order is still
\* open.
C8_Witness ==
    /\ OcoSecondFailed /\ pc = "done" /\ result.tag = "None"
    /\ Len(CancelOrders) = 1 /\ CancelOrders[1].out # "ok"
    /\ Placed[1].orderId \in exchange.open

\* The local checks of the builder called.
Validation(c) ==
    CASE c.builder = "market" -> MarketValidation(c)
      [] c.builder = "limit" -> LimitValidation(c)
      [] c.builder = "stop_limit" -> StopLimitValidation(c)
      [] c.builder = "oco" -> OcoValidation(c)
      [] c.builder = "grid" -> GridValidation(c)
      [] c.builder = "twap" -> TwapValidation(c)
      [] OTHER -> TRUE

\* The call met a failure of one of the three categories: a failed local
\* check, or a remote request that raised.
MetFailure ==
    \/ ~Validation(call)
    \/ \E j \in DOMAIN remote : remote[j].out \in Failures

C10_AtMostOneSubmission ==
    call.builder \in {"market", "limit", "stop_limit"}
        => /\ Len(CreateOrders) <= 1
           /\ CreateOrders # << >>
                => /\ pc = "done"
                   /\ IsCreateOrder(remote[Len(remote)])
                   /\ IF CreateOrders[1].out = "ok"
                      THEN result = ReturnValue(Placed[1])
                      ELSE result.tag = "None"

\* C10 witness: a limit call whose one submission failed has returned None.
C10_Witness ==
    /\ call.builder = "limit" /\ pc = "done" /\ result.tag = "None"
    /\ Len(CreateOrders) = 1 /\ CreateOrders[1].out \in Failures

\* ------------------------------------------------------------------------
\* Validation with arguments of any type
\* ------------------------------------------------------------------------
\* Python checks no annotation: a caller can pass None, a number or a string
\* for any argument.  A value carries its type; the validators and the
\* validation phase of each builder are evaluated as Python evaluates them, a
\* comparison or a method call on the wrong type raising.

NoneValue == [type |-> "NoneType"]
StrValue(s) == [type |-> "str", str |-> s]
NumValue(x) == [type |-> "float", num |-> x]

TypeError == "TypeError"
AttributeError == "AttributeError"

\* How one check of a validation phase ends: the argument passes, the builder
\* logs and returns None, or the expression raises.
Pass == "pass"
Reject == "reject"

\* `not self.validate_symbol(symbol)`:
\* `if not symbol or not isinstance(symbol, str): return False`
AnyValidateSymbol(symbol) ==
    IF symbol.type # "str" THEN ReturnValue(FALSE)
    ELSE ReturnValue(ValidateSymbol(symbol.str))

\* `x > 0` on a value of any type: None > 0 and 'a' > 0 raise TypeError.
AnyPositive(x) ==
    IF x.type # "float" THEN Raised(TypeError) ELSE ReturnValue(x.num > 0)

AnyValidateQuantity(quantity) ==
    IF quantity.type # "float" THEN Raised(TypeError)
    ELSE ReturnValue(ValidateQuantity(quantity.num))

AnyValidatePrice(price) ==
    IF price.type # "float" THEN Raised(TypeError)
    ELSE ReturnValue(ValidatePrice(price.num))

\* `if not self.validate_...(x): ... return None`
CheckValid(validated) ==
    IF validated.tag = "raised" THEN validated.exc
    ELSE IF validated.value THEN Pass ELSE Reject

\* `if side.upper() not in ['BUY', 'SELL']: ... return None`
CheckSide(side) ==
    IF side.type # "str" THEN AttributeError
    ELSE IF InvalidSide(side.str) THEN Reject ELSE Pass

\* `if x not in [...]: ... return None`: == never raises.
CheckMember(x, allowed) ==
    IF x.type = "str" /\ x.str \in allowed THEN Pass ELSE Reject

\* `if x <= 0: ... return None`
CheckNotPositive(x) == CheckValid(AnyPositive(x))

\* The checks run in order; the first that does not pass ends the phase.
RECURSIVE FirstStop(_)
FirstStop(checks) ==
    IF checks = << >> THEN Pass
    ELSE IF Head(checks) # Pass THEN Head(checks)
    ELSE FirstStop(Tail(checks))

\* The result of a validation phase: None, an exception, or on to formatting.
PhaseResult(stop) ==
    IF stop = Pass THEN NotReturned
    ELSE IF stop = Reject THEN ReturnNone
    ELSE Raised(stop)

AnySymbols == { StrValue(BTCUSDT), StrValue(<< "b", "t", "c" >>), NoneValue, NumValue(Scale) }
AnySides == { StrValue(BUY), StrValue(<< "H", "O", "L", "D" >>), NoneValue, NumValue(Scale) }
AnyNumbers == { NumValue(Dec(3, 10)), NumValue(0), NoneValue, StrValue(<< "1" >>) }
AnyChoices == { StrValue(LIMIT), StrValue(GTC), NoneValue }


MarketChecks(c) ==
    << CheckValid(AnyValidateSymbol(c.symbol)), CheckSide(c.side),
       CheckValid(AnyValidateQuantity(c.quantity)) >>

LimitChecks(c) ==
    << CheckValid(AnyValidateSymbol(c.symbol)), CheckSide(c.side),
       CheckValid(AnyValidateQuantity(c.quantity)),
       CheckValid(AnyValidatePrice(c.price)),
       CheckMember(c.time_in_force, {GTC, IOC, FOK}) >>

StopLimitChecks(c) ==
    << CheckValid(AnyValidateSymbol(c.symbol)), CheckSide(c.side),
       CheckValid(AnyValidateQuantity(c.quantity)),
       CheckValid(AnyValidatePrice(c.stop_price)),
       CheckValid(AnyValidatePrice(c.limit_price)) >>

OcoChecks(c) ==
    << CheckValid(AnyValidateSymbol(c.symbol)), CheckSide(c.side),
       CheckValid(AnyValidateQuantity(c.quantity)),
       CheckValid(AnyValidatePrice(c.price)),
       CheckValid(AnyValidatePrice(c.stop_price)),
       CheckValid(AnyValidatePrice(c.limit_price)) >>

TwapChecks(c) ==
    << CheckValid(AnyValidateSymbol(c.symbol)), CheckSide(c.side),
       CheckValid(AnyValidateQuantity(c.total_quantity)),
       CheckNotPositive(c.duration_minutes), CheckNotPositive(c.num_intervals),
       CheckMember(c.order_type, {MARKET, LIMIT}) >>

\* `if lower_price >= upper_price`: both are numbers once validate_price has
\* passed them.
CheckBelow(lower_price, upper_price) ==
    IF lower_price.type = "float" /\ upper_price.type = "float"
    THEN IF lower_price.num >= upper_price.num THEN Reject ELSE Pass
    ELSE TypeError

GridChecks(c) ==
    << CheckValid(AnyValidateSymbol(c.symbol)),
       CheckValid(AnyValidatePrice(c.lower_price)),
       CheckValid(AnyValidatePrice(c.upper_price)),
       CheckBelow(c.lower_price, c.upper_price),
       CheckNotPositive(c.grid_levels),
       CheckValid(AnyValidateQuantity(c.quantity_per_grid)),
       CheckMember(c.order_type, {LIMIT, MARKET}) >>

\* A validator or a validation phase was run on the arguments `c`, and ended
\* as `ended`; nothing is sent to the remote side.
Validated(c, ended) ==
    /\ call' = c
    /\ result' = ended
    /\ pc' = IF ended.tag = "running" THEN "validated" ELSE "done"
    /\ loc' = NoLocals
    /\ UNCHANGED << remote, exchange >>

CallValidateSymbol ==
    /\ pc = "idle"
    /\ \E symbol \in AnySymbols :
           Validated([builder |-> "validate_symbol", symbol |-> symbol],
                     AnyValidateSymbol(symbol))

CallValidateQuantity ==
    /\ pc = "idle"
    /\ \E quantity \in AnyNumbers :
           Validated([builder |-> "validate_quantity", quantity |-> quantity],
                     AnyValidateQuantity(quantity))

CallValidatePrice ==
    /\ pc = "idle"
    /\ \E price \in AnyNumbers :
           Validated([builder |-> "validate_price", price |-> price],
                     AnyValidatePrice(price))

ValidateMarketOrder ==
    /\ pc = "idle"
    /\ \E symbol \in AnySymbols, side \in AnySides, quantity \in AnyNumbers :
           LET c == [builder |-> "market", symbol |-> symbol, side |-> side,
                     quantity |-> quantity]
           IN  Validated(c, PhaseResult(FirstStop(MarketChecks(c))))

ValidateLimitOrder ==
    /\ pc = "idle"
    /\ \E symbol \in AnySymbols, side \in AnySides, quantity \in AnyNumbers,
          price \in AnyNumbers, time_in_force \in AnyChoices :
           LET c == [builder |-> "limit", symbol |-> symbol, side |-> side,
                     quantity |-> quantity, price |-> price,
                     time_in_force |-> time_in_force]
           IN  Validated(c, PhaseResult(FirstStop(LimitChecks(c))))

ValidateStopLimitOrder ==
    /\ pc = "idle"
    /\ \E symbol \in AnySymbols, side \in AnySides, quantity \in AnyNumbers,
          stop_price \in AnyNumbers, limit_price \in AnyNumbers :
           LET c == [builder |-> "stop_limit", symbol |-> symbol, side |-> side,
                     quantity |-> quantity, stop_price |-> stop_price,
                     limit_price |-> limit_price]
           IN  Validated(c, PhaseResult(FirstStop(StopLimitChecks(c))))

ValidateOcoOrder ==
    /\ pc = "idle"
    /\ \E symbol \in AnySymbols, side \in AnySides, quantity \in AnyNumbers,
          price \in AnyNumbers, stop_price \in AnyNumbers, limit_price \in AnyNumbers :
           LET c == [builder |-> "oco", symbol |-> symbol, side |-> side,
                     quantity |-> quantity, price |-> price,
                     stop_price |-> stop_price, limit_price |-> limit_price]
           IN  Validated(c, PhaseResult(FirstStop(OcoChecks(c))))

ValidateTwapOrder ==
    /\ pc = "idle"
    /\ \E symbol \in AnySymbols, side \in AnySides, total_quantity \in AnyNumbers,
          duration_minutes \in AnyNumbers, num_intervals \in AnyNumbers,
          order_type \in AnyChoices :
           LET c == [builder |-> "twap", symbol |-> symbol, side |-> side,
                     total_quantity |-> total_quantity,
                     duration_minutes |-> duration_minutes,
                     num_intervals |-> num_intervals, order_type |-> order_type]
           IN  Validated(c, PhaseResult(FirstStop(TwapChecks(c))))

ValidateGridOrders ==
    /\ pc = "idle"
    /\ \E symbol \in AnySymbols, lower_price \in AnyNumbers, upper_price \in AnyNumbers,
          grid_levels \in AnyNumbers, quantity_per_grid \in AnyNumbers,
          order_type \in AnyChoices :
           LET c == [builder |-> "grid", symbol |-> symbol, lower_price |-> lower_price,
                     upper_price |-> upper_price, grid_levels |-> grid_levels,
                     quantity_per_grid |-> quantity_per_grid, order_type |-> order_type]
           IN  Validated(c, PhaseResult(FirstStop(GridChecks(c))))

NextAnyType ==
    \/ CallValidateSymbol \/ CallValidateQuantity \/ CallValidatePrice
    \/ ValidateMarketOrder \/ ValidateLimitOrder \/ ValidateStopLimitOrder
    \/ ValidateOcoOrder \/ ValidateTwapOrder \/ ValidateGridOrders

SpecAnyType == Init /\ [][NextAnyType]_vars

\* C11 (stated as claimed): the validators and the validation phase of every
\* builder never end by raising, whatever the type of the arguments.
C11_ValidationNeverRaises == result.tag # "raised"

\* ------------------------------------------------------------------------
\* BasicBot.__init__ and the command line (cli.main)
\* ------------------------------------------------------------------------
\* One run of the command-line process: "cli_main" (arguments parsed, a
\* command given), the credentials, the constructor of the bot step by step,
\* the command (for an order command, the builder as modelled above), and the
\* exit of the process.

\* How the process ended: its exit code, what the command had returned and
\* what print_order_result printed.
Exit(code, returned, printed) ==
    [tag |-> "exit", code |-> code, returned |-> returned, printed |-> printed]

\* server_time - local_time, in milliseconds
TimeDiffs == { 0, 999, 1000, 1001, 0 - 1000, 0 - 1001 }

\* _sync_server_time: `if abs(time_diff) > 1000` warns, else reports the
\* clocks synchronized; neither raises.
Abs(x) == IF x < 0 THEN 0 - x ELSE x
SyncWarns(time_diff) == Abs(time_diff) > 1000

\* The error codes of a BinanceAPIException that __init__ tells apart.
TimestampError == 0 - 1021
SignatureError == 0 - 1022
ConnectFailures ==
    { [exc |-> BinanceAPIException, code |-> TimestampError],
      [exc |-> BinanceAPIException, code |-> SignatureError],
      [exc |-> BinanceAPIException, code |-> 0 - 2015],
      [exc |-> OtherException, code |-> 0] }

\* `except BinanceAPIException as e: ... raise` / `except Exception as e: ... raise`
ConnectExcept(failure) ==
    CASE failure.exc = BinanceAPIException -> Raised(failure.exc)
      [] OTHER -> Raised(failure.exc)

InitCli ==
    /\ pc = "cli_main"
    /\ call = NoCall
    /\ loc = NoLocals
    /\ remote = << >>
    /\ result = NotReturned
    /\ \E info \in ExchangeInfos :
         exchange = [symbols |-> info, nextId |-> 2, open |-> {1}]

\* api_key = args.api_key or os.getenv(...); `if not api_key or not api_secret`
CliCredentials ==
    /\ pc = "cli_main"
    /\ \E api_key \in {None, Some("key")}, api_secret \in {None, Some("secret")} :
         /\ loc' = [api_key |-> api_key, api_secret |-> api_secret]
         /\ IF IsNone(api_key) \/ IsNone(api_secret)
            THEN pc' = "exited" /\ result' = Exit(1, NotReturned, "credentials required")
            ELSE pc' = "bot_client" /\ result' = result
    /\ UNCHANGED << call, remote, exchange >>

\* self.client = Client(...): no try surrounds it, whatever it raises leaves
\* the constructor.
BotClient ==
    /\ pc = "bot_client"
    /\ \E out \in InfoOutcomes :
         /\ remote' = Append(remote, Request("Client", << >>, out))
         /\ IF out = "ok"
            THEN pc' = "bot_sync_server_time" /\ result' = result
            ELSE pc' = "bot_raised" /\ result' = Raised(out)
    /\ UNCHANGED << call, loc, exchange >>

\* self._sync_server_time(): every exception is caught and logged as a warning.
BotSyncServerTime ==
    /\ pc = "bot_sync_server_time"
    /\ \/ \E time_diff \in TimeDiffs :
            /\ remote' = Append(remote, Request("GET /fapi/v1/time", << >>, "ok"))
            /\ loc' = [time_diff |-> Some(time_diff),
                       logged |-> IF SyncWarns(time_diff) THEN "time difference detected"
                                  ELSE "time synchronized"]
       \/ /\ remote' = Append(remote, Request("GET /fapi/v1/time", << >>, OtherException))
          /\ loc' = [time_diff |-> None, logged |-> "could not sync server time"]
    /\ pc' = "bot_connect"
    /\ UNCHANGED << call, result, exchange >>

\* account_info = self.client.futures_account(): a failure is logged and
\* raised again.  When it answers the constructor returns the bot: the
\* command starts on it with a history and locals of its own.
BotConnect ==
    /\ pc = "bot_connect"
    /\ \/ /\ remote' = << >>
          /\ loc' = NoLocals
          /\ pc' = "idle"
          /\ result' = result
       \/ \E failure \in ConnectFailures :
            /\ remote' = Append(remote, Request("futures_account",
                                   [code |-> failure.code], failure.exc))
            /\ loc' = loc
            /\ pc' = "bot_raised"
            /\ result' = ConnectExcept(failure)
    /\ UNCHANGED << call, exchange >>

\* main: `except Exception as e:` around TradingBot(...) prints and calls
\* sys.exit(1).
CliInitFailed ==
    /\ pc = "bot_raised"
    /\ pc' = "exited"
    /\ result' = Exit(1, result, "failed to initialize bot")
    /\ UNCHANGED << call, loc, remote, exchange >>

\* What argparse lets through to a builder: `choices=` for the side, the
\* time-in-force and the order type (type=float and type=int for the numbers,
\* any string for the symbol).
CliArguments(c) ==
    /\ "side" \in DOMAIN c => c.side \in {BUY, SELL}
    /\ "time_in_force" \in DOMAIN c => c.time_in_force \in {GTC, IOC, FOK}
    /\ "order_type" \in DOMAIN c => c.order_type \in {MARKET, LIMIT}

OrderCommands == {"market", "limit", "stop_limit", "oco", "twap", "grid"}

\* An order command: the builder runs, on arguments argparse accepted.
CliOrderCommand ==
    /\ pc \notin {"cli_main", "bot_client", "bot_sync_server_time", "bot_connect",
                  "bot_raised", "done", "exited"}
    /\ Next
    /\ CliArguments(call')

\* check_time_sync: `abs(time_diff) < 1000` is "OK", else "OUT_OF_SYNC"; an
\* exception is turned into the status "ERROR".
CheckTimeSync(time_diff) ==
    IF IsNone(time_diff) THEN [synced |-> FALSE, status |-> "ERROR"]
    ELSE [synced |-> Abs(time_diff[1]) < 1000,
          status |-> IF Abs(time_diff[1]) < 1000 THEN "OK" ELSE "OUT_OF_SYNC"]

\* The `info` command: get_account_balance returns {} when the request
\* raises; with --symbol, get_position does the same.
CliInfo ==
    /\ pc = "idle"
    /\ \E with_symbol \in BOOLEAN, out \in InfoOutcomes, position \in InfoOutcomes :
         /\ call' = [builder |-> "info", with_symbol |-> with_symbol]
         /\ remote' = Append(remote, Request("futures_account", << >>, out))
                         \o (IF with_symbol
                             THEN << Request("futures_position_information",
                                             << >>, position) >>
                             ELSE << >>)
         /\ result' = ReturnValue([balance |-> out = "ok",
                                   position |-> with_symbol /\ position = "ok"])
    /\ pc' = "done"
    /\ loc' = NoLocals
    /\ UNCHANGED exchange

\* The `cancel` command: cancel_all_orders returns True, or None when the
\* request raises; cancel_order returns True or False; with neither --all nor
\* --order-id an error is printed.
CliCancel ==
    /\ pc = "idle"
    /\ \E mode \in {"all", "order_id", "neither"}, out \in InfoOutcomes :
         /\ call' = [builder |-> "cancel", mode |-> mode]
         /\ CASE mode = "all" ->
                   /\ remote' = Append(remote,
                          Request("futures_cancel_all_open_orders", << >>, out))
                   /\ result' = IF out = "ok" THEN ReturnValue(TRUE) ELSE ReturnNone
                   /\ exchange' = IF out = "ok" THEN [exchange EXCEPT !.open = {}]
                                  ELSE exchange
              [] mode = "order_id" ->
                   /\ remote' = Append(remote, Request("futures_cancel_order",
                          [symbol |-> BTCUSDT, orderId |-> 1], out))
                   /\ result' = ReturnValue(out = "ok")
                   /\ exchange' = IF out = "ok" THEN [exchange EXCEPT !.open = @ \ {1}]
                                  ELSE exchange
              [] OTHER ->
                   /\ remote' = remote
                   /\ result' = ReturnNone
                   /\ exchange' = exchange
    /\ pc' = "done"
    /\ loc' = NoLocals

\* The `time-sync` command: print_time_sync_info().
CliTimeSync ==
    /\ pc = "idle"
    /\ \E time_diff \in {Some(d) : d \in TimeDiffs} \cup {None} :
         /\ call' = [builder |-> "time-sync"]
         /\ remote' = Append(remote, Request("GET /fapi/v1/time", << >>,
                                IF IsNone(time_diff) THEN OtherException ELSE "ok"))
         /\ result' = ReturnValue(CheckTimeSync(time_diff))
    /\ pc' = "done"
    /\ loc' = NoLocals
    /\ UNCHANGED exchange

\* print_order_result: `if order_result:` prints the success banner, else the
\* [ERROR] line; neither exits.
PrintOrderResult(c, returned) ==
    IF c.builder \notin OrderCommands THEN "command output"
    ELSE IF returned.tag = "value" /\ (c.builder = "twap" => returned.value # << >>)
         THEN "placed successfully"
         ELSE "failed to place order"

\* The end of main: an exception of the command is caught and exits with 1;
\* a command that returned lets main return, and the process exits with 0.
CliExit ==
    /\ pc = "done"
    /\ pc' = "exited"
    /\ result' = IF result.tag = "raised" THEN Exit(1, result, "error")
                 ELSE Exit(0, result, PrintOrderResult(call, result))
    /\ UNCHANGED << call, loc, remote, exchange >>

NextCli ==
    \/ CliCredentials \/ BotClient \/ BotSyncServerTime \/ BotConnect
    \/ CliInitFailed \/ CliOrderCommand \/ CliInfo \/ CliCancel \/ CliTimeSync
    \/ CliExit

SpecCli == InitCli /\ [][NextCli]_vars

\* The process has exited after an order command whose builder returned
\* `tag` ("None" or "value").
ExitedAfterOrder(tag) ==
    /\ pc = "exited" /\ call.builder \in OrderCommands
    /\ result.returned.tag = tag

\* C12 (stated as claimed): the process exits with 1 when the credentials
\* are missing or the construction of the bot fails, with 1 when the builder
\* of an order command returned None, and with 0 when the command succeeded.
C12_ExitCodes ==
    /\ (pc = "exited" /\ call = NoCall) => result.code = 1
    /\ ExitedAfterOrder("None") => result.code = 1
    /\ (ExitedAfterOrder("value") /\ \A j \in DOMAIN remote : remote[j].out = "ok")
          => result.code = 0

\* The request the history ends with.
LastRequest == remote[Len(remote)]

\* A request of the constructor that raised to it.
IsConstructionFailure(r) == r.op \in {"Client", "futures_account"} /\ r.out # "ok"

\* C13: a failure of the connection check of the constructor (a credential
\* error, a timestamp error, any exception of futures_account) makes the
\* constructor raise instead of returning a bot, and the process exits with 1
\* without running a command; a clock difference that _sync_server_time only
\* detects, or a failed time request, does not.  The constructor is the only
\* operation that ever raises: no command ends by raising.
C13_OnlyConstructionRaises ==
    /\ result.tag = "raised"
          => /\ pc = "bot_raised" /\ call = NoCall
             /\ IsConstructionFailure(LastRequest)
    /\ (call = NoCall /\ remote # << >> /\ LastRequest.out # "ok")
          => IF LastRequest.op = "GET /fapi/v1/time"
             THEN pc = "bot_connect" /\ result.tag = "running"
             ELSE \/ pc = "bot_raised" /\ result = Raised(LastRequest.out)
                  \/ pc = "exited" /\ result.code = 1
                        /\ result.returned = Raised(LastRequest.out)
    /\ (pc = "exited" /\ result.returned.tag = "raised") => call = NoCall

\* C13 witness: the time request found the clocks synchronized, the
\* connection check was then rejected with the timestamp error, and the
\* constructor has raised.
C13_Witness ==
    /\ pc = "bot_raised" /\ result = Raised(BinanceAPIException)
    /\ loc.logged = "time synchronized"
    /\ LastRequest.op = "futures_account"
    /\ LastRequest.params.code = TimestampError

\* C14: what a successful call returns is what the remote side answered:
\* market, limit and stop-limit return the response of their one order, with
\* the same fields and values; OCO returns the two responses under the keys
\* stop_loss and take_profit, TWAP the list of the responses in order.
C14_PassThrough ==
    (pc = "done" /\ result.tag = "value")
        => CASE call.builder \in {"market", "limit", "stop_limit"} ->
                  Len(Placed) = 1 /\ result.value = Placed[1]
             [] call.builder = "oco" ->
                  result.value = << [key |-> "stop_loss", order |-> Placed[1]],
                                    [key |-> "take_profit", order |-> Placed[2]] >>
             [] call.builder = "twap" -> result.value = Placed
             [] OTHER -> TRUE

\* C14 witness: a stop-limit call has returned the response of its order.
C14_Witness ==
    /\ call.builder = "stop_limit" /\ pc = "done" /\ result.tag = "value"
    /\ result.value.orderId = 2 /\ result.value.status = "NEW"

\* The orders of one side among the accepted ones, in placement order.
PlacedOn(side) == SelectSeq(Placed, LAMBDA order : order.side = side)

\* Request j of a finished grid call failed after an order had been placed.
GridFailedAfterPlacing(j) ==
    /\ call.builder = "grid" /\ pc = "done"
    /\ remote[j].out # "ok"
    /\ \E i \in 1..(j - 1) : IsAccepted(remote[i])

GridReturnedPlaced ==
    /\ result.tag = "value"
    /\ result.value.buy_orders = PlacedOn(BUY)
    /\ result.value.sell_orders = PlacedOn(SELL)

\* C15 as stated: when any remote call of place_grid_orders fails after some
\* orders were placed, no order is submitted after the failure and the result
\* lists exactly the orders placed before it.
C15_Original ==
    \A j \in DOMAIN remote :
        GridFailedAfterPlacing(j)
            => /\ \A h \in (j + 1)..Len(remote) : ~IsCreateOrder(remote[h])
               /\ GridReturnedPlaced

\* C15, amended: when an order submission of place_grid_orders raises after
\* some orders were placed, that submission is the last request of the call
\* and the call returns the mapping of buy_orders and sell_orders holding
\* exactly the orders placed before it, in placement order.
C15_PartialOnSubmissionFailure ==
    \A j \in DOMAIN remote :
        (GridFailedAfterPlacing(j) /\ IsCreateOrder(remote[j]))
            => /\ j = Len(remote)
               /\ GridReturnedPlaced
               /\ DOMAIN result.value = {"buy_orders", "sell_orders"}

\* C15 witness: a grid call placed a buy and a sell order, its next
\* submission raised, and it returned the two orders.
C15_Witness ==
    /\ remote # << >>
    /\ GridFailedAfterPlacing(Len(remote)) /\ IsCreateOrder(LastRequest)
    /\ Len(PlacedOn(BUY)) = 1 /\ Len(PlacedOn(SELL)) = 1
    /\ result.tag = "value" /\ Len(result.value.sell_orders) = 1

Tickers == SelectSeq(remote, IsTicker)

\* The position in the history of the first request for `op`, 0 if there is
\* none.
FirstIndex(op) ==
    LET at == { j \in DOMAIN remote : remote[j].op = op }
    IN  IF at = {} THEN 0 ELSE CHOOSE j \in at : \A h \in at : j <= h

GridPastTicker ==
    /\ call.builder = "grid" /\ "submitted" \in DOMAIN loc
    /\ pc \in {"grid_format_price", "grid_create_order"} \/ CreateOrders # << >>

\* C16: a grid call that has come to its loops has asked for the market
\* price exactly once, before any order submission; the price it holds is the
\* one that answer quoted, and every point it submitted an order for was
\* taken by comparing the point with that one quote (BUY below, SELL above).
C16_SingleSnapshot ==
    /\ call.builder = "grid" => Len(Tickers) <= 1
    /\ GridPastTicker
          => /\ Len(Tickers) = 1 /\ Tickers[1].out = "ok"
             /\ CreateOrders # << >>
                   => FirstIndex("futures_symbol_ticker") < FirstIndex("futures_create_order")
             /\ loc.current_price = Some(Tickers[1].params.price)
             /\ \A j \in DOMAIN loc.submitted :
                  LET e == loc.submitted[j]
                  IN  IF e.side = BUY
                      THEN GridPoint(e) < Tickers[1].params.price
                      ELSE GridPoint(e) > Tickers[1].params.price

\* C16 witness: a finished grid call with three submissions, on both sides,
\* and one price query, which came before them.
C16_Witness ==
    /\ call.builder = "grid" /\ pc = "done" /\ Len(CreateOrders) = 3
    /\ Len(Tickers) = 1 /\ FirstIndex("futures_symbol_ticker") < FirstIndex("futures_create_order")
    /\ PlacedOn(BUY) # << >> /\ PlacedOn(SELL) # << >>

IsCancel(r) == r.op \in {"futures_cancel_order", "futures_cancel_all_open_orders"}

PlacedIds == { Placed[j].orderId : j \in DOMAIN Placed }

\* C17: a TWAP or grid call never sends a cancel request, so every order it
\* placed (and the order that was open before) is still open at the remote
\* side, also after a request of the call failed; a builder whose history
\* holds a cancel request is place_oco_order.
C17_NoRollback ==
    /\ call.builder \in {"twap", "grid"}
          => /\ \A j \in DOMAIN remote : ~IsCancel(remote[j])
             /\ PlacedIds \cup {1} \subseteq exchange.open
    /\ (\E j \in DOMAIN remote : IsCancel(remote[j])) => call.builder = "oco"

\* C17 witness: a grid call whose third submission raised after two orders
\* were placed is over, and both orders are still open.
C17_Witness ==
    /\ call.builder = "grid" /\ pc = "done" /\ result.tag = "value"
    /\ remote # << >> /\ IsCreateOrder(LastRequest) /\ LastRequest.out # "ok"
    /\ PlacedIds = {2, 3} /\ exchange.open = {1, 2, 3}

IsSleep(r) == r.op = "sleep"

Sleeps == SelectSeq(remote, IsSleep)

\* Positions a < b of the history hold two consecutive order submissions.
ConsecutiveSubmissions(a, b) ==
    /\ a < b /\ IsCreateOrder(remote[a]) /\ IsCreateOrder(remote[b])
    /\ \A j \in (a + 1)..(b - 1) : ~IsCreateOrder(remote[j])

\* C18: in a TWAP call every wait directly follows a placed order and lasts
\* duration_minutes * 60 / num_intervals seconds (as a float); between two
\* consecutive order submissions there is exactly one wait; the call never
\* waits after the order of the last interval, and a call that placed all
\* num_intervals orders waited num_intervals - 1 times.
C18_WaitsBetweenSubmissions ==
    call.builder = "twap"
        => /\ \A j \in DOMAIN remote :
                IsSleep(remote[j])
                    => /\ remote[j].params.seconds
                             = Fl(call.duration_minutes * 60 * Scale, call.num_intervals)
                       /\ j > 1 /\ IsAccepted(remote[j - 1])
           /\ \A a, b \in DOMAIN remote :
                ConsecutiveSubmissions(a, b)
                    => Cardinality({ j \in (a + 1)..(b - 1) : IsSleep(remote[j]) }) = 1
           /\ pc = "twap_sleep" => loc.i < call.num_intervals - 1
           /\ (pc = "done" /\ Len(Placed) = call.num_intervals /\ Placed # << >>)
                 => /\ Len(Sleeps) = call.num_intervals - 1
                    /\ ~IsSleep(LastRequest)

\* C18 witness: a TWAP call of three intervals over two minutes placed its
\* three orders and waited twice, 40 seconds each time.
C18_Witness ==
    /\ call.builder = "twap" /\ pc = "done" /\ call.num_intervals = 3
    /\ call.duration_minutes = 2 /\ Len(Placed) = 3
    /\ Len(Sleeps) = 2 /\ Sleeps[2].params.seconds = 40 * Scale

Listed(symbol) == \E k \in DOMAIN exchange.symbols : exchange.symbols[k].symbol = symbol

\* The metadata lookup for `symbol` answered by `out` fails: the request
\* raises, or the symbol is absent from the metadata.
LookupFails(symbol, out) == out # "ok" \/ ~Listed(symbol)

IsLookup(r) == r.op = "futures_exchange_info"

SubmittingPcs ==
    {"market_create_order", "limit_create_order", "stop_limit_create_order",
     "oco_stop_loss", "oco_take_profit", "grid_create_order", "twap_create_order"}

\* The formatted values the order under submission carries.
Carried ==
    CASE call.builder = "market" -> {"formatted_quantity"}
      [] call.builder = "limit" -> {"formatted_quantity", "formatted_price"}
      [] call.builder \in {"stop_limit", "oco"} ->
            {"formatted_quantity", "formatted_stop_price", "formatted_limit_price"}
      [] call.builder = "grid" ->
            IF call.order_type = LIMIT THEN {"formatted_quantity", "formatted_price"}
            ELSE {"formatted_quantity"}
      [] call.builder = "twap" ->
            IF call.order_type = LIMIT
            THEN {"formatted_interval_quantity", "formatted_price"}
            ELSE {"formatted_interval_quantity"}
      [] OTHER -> {}

\* The lookups that fed the order request at position j of the history:
\* every lookup before it in a one-shot builder; in a grid or TWAP call the
\* first request (the quantity) and, for a price, the request right before.
FeedingLookups(j) ==
    IF call.builder \in {"grid", "twap"}
    THEN {1} \cup (IF "formatted_price" \in Carried \/ call.builder = "grid"
                   THEN {j - 1} ELSE {})
    ELSE { h \in 1..(j - 1) : IsLookup(remote[h]) }

\* C19: format_quantity and format_price give None whenever the metadata
\* lookup raises or does not list the symbol; the order a builder is about to
\* submit carries no None, and every lookup that fed a submitted order was
\* answered and listed the symbol.
C19_NoneNeverSubmitted ==
    /\ \A symbol \in Symbols, x \in Quantities \cup Prices, out \in InfoOutcomes :
          LookupFails(symbol, out)
              => /\ IsNone(FormatQuantity(symbol, x, out))
                 /\ IsNone(FormatPrice(symbol, x, out))
    /\ pc \in SubmittingPcs => \A f \in Carried : ~IsNone(loc[f])
    /\ \A j \in DOMAIN remote :
          IsCreateOrder(remote[j])
              => \A h \in FeedingLookups(j) :
                    IsLookup(remote[h]) /\ ~LookupFails(call.symbol, remote[h].out)

\* C19 witness: a limit call whose quantity was formatted and whose price
\* lookup raised has returned None without a request for an order.
C19_Witness ==
    /\ call.builder = "limit" /\ ReturnedNone /\ Len(remote) = 2
    /\ remote[1].out = "ok" /\ IsLookup(remote[2]) /\ remote[2].out # "ok"
    /\ ~IsNone(loc.formatted_quantity) /\ IsNone(loc.formatted_price)

OcoSucceeded == call.builder = "oco" /\ pc = "done" /\ result.tag = "value"

\* C20: a place_oco_order call that returned its orders sent exactly two
\* order requests, both accepted: first a STOP_MARKET triggered at the
\* formatted stop price, then a TAKE_PROFIT_MARKET triggered at the formatted
\* limit price; both on the side opposite to the requested one, for the same
\* formatted quantity and with the reduce-only flag of the call.
C20_OcoPair ==
    OcoSucceeded
        => /\ Len(CreateOrders) = 2
           /\ \A j \in 1..2 :
                /\ CreateOrders[j].out = "ok"
                /\ CreateOrders[j].params.side \in {BUY, SELL} \ {StrUpper(call.side)}
                /\ CreateOrders[j].params.quantity
                      = FormatQuantity(call.symbol, call.quantity, "ok")[1]
                /\ CreateOrders[j].params.reduceOnly = call.reduce_only
           /\ CreateOrders[1].params.type = "STOP_MARKET"
           /\ CreateOrders[1].params.stopPrice
                 = FormatPrice(call.symbol, call.stop_price, "ok")[1]
           /\ CreateOrders[2].params.type = "TAKE_PROFIT_MARKET"
           /\ CreateOrders[2].params.stopPrice
                 = FormatPrice(call.symbol, call.limit_price, "ok")[1]

\* C20 witness: a reduce-only OCO call for side 'buy' with different stop
\* and limit prices returned its two orders, both SELL.
C20_Witness ==
    /\ OcoSucceeded /\ call.side = << "b", "u", "y" >> /\ call.reduce_only
    /\ call.stop_price # call.limit_price
    /\ CreateOrders[1].params.stopPrice # CreateOrders[2].params.stopPrice
    /\ CreateOrders[2].params.side = SELL

GridOutOfRange ==
    /\ call.builder = "grid"
    /\ \/ call.lower_price >= call.upper_price
       \/ call.grid_levels <= 0
       \/ call.order_type \notin {LIMIT, MARKET}

TwapOutOfRange ==
    /\ call.builder = "twap"
    /\ \/ call.duration_minutes <= 0
       \/ call.num_intervals <= 0
       \/ call.order_type \notin {MARKET, LIMIT}

\* C21: a grid call with lower_price >= upper_price, grid_levels <= 0 or an
\* order_type other than LIMIT/MARKET, and a TWAP call with
\* duration_minutes <= 0, num_intervals <= 0 or an order_type other than
\* MARKET/LIMIT, has returned None and has issued no remote call.
C21_OutOfRangeRejected ==
    (GridOutOfRange \/ TwapOutOfRange)
        => /\ ReturnedNone
           /\ remote = << >>
           /\ exchange.nextId = 2

\* C21 witness: a grid call whose symbol, prices and quantity are valid but
\* whose bounds are equal has returned None without a remote call.
C21_Witness ==
    /\ call.builder = "grid" /\ ReturnedNone /\ remote = << >>
    /\ call.symbol = BTCUSDT /\ call.lower_price = call.upper_price
    /\ call.lower_price > 0 /\ call.quantity_per_grid > 0
    /\ call.grid_levels = MaxLevels /\ call.order_type = LIMIT

AllCancelsSucceeded == \A j \in DOMAIN CancelOrders : CancelOrders[j].out = "ok"

\* The orders of the call that are open at the remote side.
LeftOpen == PlacedIds \cap exchange.open

\* C22: when a place_oco_order call is over and every cancel request it
\* issued succeeded, it has left open no order if it returned None and its
\* two orders if it returned them; it has never left exactly one open.
C22_NoneLeavesNothingOpen ==
    (call.builder = "oco" /\ pc = "done" /\ AllCancelsSucceeded)
        => /\ result.tag = "None" => LeftOpen = {}
           /\ result.tag = "value" => Cardinality(LeftOpen) = 2
           /\ Cardinality(LeftOpen) # 1

\* C22 witness: the take-profit submission failed, the cancel of the
\* stop-loss order succeeded, and the call has returned None with only the
\* order that was open before it left open.
C22_Witness ==
    /\ OcoSecondFailed /\ ReturnedNone
    /\ Len(CancelOrders) = 1 /\ AllCancelsSucceeded
    /\ PlacedIds = {2} /\ exchange.open = {1}

OcoFirstFailed ==
    /\ call.builder = "oco" /\ CreateOrders # << >>
    /\ CreateOrders[1].out # "ok"

\* C23: once the stop-loss submission of a place_oco_order call has failed,
\* the call is over and has returned None; the failed submission is its only
\* order request (no take-profit) and it has issued no cancel request.
C23_FirstFailureEndsCall ==
    OcoFirstFailed
        => /\ CreateOrders[1].params.type = "STOP_MARKET"
           /\ Len(CreateOrders) = 1
           /\ \A j \in DOMAIN remote : ~IsCancel(remote[j])
           /\ ReturnedNone
           /\ exchange.open = {1}

\* C23 witness: the three lookups succeeded, the stop-loss submission was
\* rejected by the exchange, and the call has returned None.
C23_Witness ==
    /\ OcoFirstFailed /\ ReturnedNone /\ Len(remote) = 4
    /\ LastRequest.out = BinanceAPIException

\* C24 (stated as claimed): a place_twap_order call that is over has
\* returned None or a non-empty list of order responses, never an empty list.
C24_NeverEmptyList ==
    (call.builder = "twap" /\ pc = "done")
        => \/ result.tag = "None"
           \/ result.tag = "value" /\ result.value # << >>

\* C25 (stated as claimed): in a LIMIT grid call with snapshot price P the
\* price every BUY order request carries (the ladder point rounded to the
\* price precision) is strictly below P, and the price every SELL order
\* request carries is strictly above P.
C25_RoundedPriceSides ==
    (call.builder = "grid" /\ call.order_type = LIMIT)
        => \A j \in DOMAIN CreateOrders :
              IF CreateOrders[j].params.side = BUY
              THEN CreateOrders[j].params.price < Tickers[1].params.price
              ELSE CreateOrders[j].params.price > Tickers[1].params.price

\* The ladder positions the buy loop takes.
BuyPoints ==
    { k \in DOMAIN loc.grid_prices :
        GridTakes(BUY, loc.grid_prices[k], loc.current_price[1]) }

\* Request j is the lookup of a loop turn (the first request of a grid call
\* is the quantity lookup, the second the ticker query): its rank among them.
LoopLookupRank(j) == Cardinality({ h \in 3..j : IsLookup(remote[h]) })

\* Request j failed while the buy side was being placed.
FailedOnBuySide(j) ==
    /\ j >= 3 /\ remote[j].out # "ok"
    /\ \/ IsCreateOrder(remote[j]) /\ remote[j].params.side = BUY
       \/ IsLookup(remote[j]) /\ LoopLookupRank(j) <= Cardinality(BuyPoints)

NoSellSubmitted == \A j \in DOMAIN CreateOrders : CreateOrders[j].params.side # SELL

\* The submissions of a grid call, in the order of the history: no SELL
\* before a BUY, and within a side rising ladder positions and prices.
GridSubmissionOrder ==
    \A a, b \in DOMAIN loc.submitted :
        a < b
            => /\ CreateOrders[a].params.side = loc.submitted[a].side
               /\ ~(loc.submitted[a].side = SELL /\ loc.submitted[b].side = BUY)
               /\ loc.submitted[a].side = loc.submitted[b].side
                     => /\ loc.submitted[a].k < loc.submitted[b].k
                        /\ GridPoint(loc.submitted[a]) <= GridPoint(loc.submitted[b])

\* C26 as stated: every BUY submission precedes every SELL submission, each
\* side goes up the ladder, and after any remote call failed while the buy
\* side was being placed no SELL order is submitted.
C26_Original ==
    (call.builder = "grid" /\ "submitted" \in DOMAIN loc /\ ~IsNone(loc.current_price))
        => /\ GridSubmissionOrder
           /\ \A j \in DOMAIN remote : FailedOnBuySide(j) => NoSellSubmitted

\* C26, amended: every BUY submission precedes every SELL submission, each
\* side goes up the ladder, and after a BUY order submission raised the call
\* sends no further request, hence no SELL order.
C26_BuyBeforeSell ==
    (call.builder = "grid" /\ "submitted" \in DOMAIN loc /\ ~IsNone(loc.current_price))
        => /\ GridSubmissionOrder
           /\ \A j \in DOMAIN remote :
                (FailedOnBuySide(j) /\ IsCreateOrder(remote[j]))
                    => j = Len(remote) /\ pc = "done" /\ NoSellSubmitted

\* C26 witness: a grid call with points on both sides of the snapshot placed
\* one BUY order, its second BUY submission raised, and it is over without a
\* SELL submission.
C26_Witness ==
    /\ call.builder = "grid" /\ pc = "done" /\ remote # << >>
    /\ "submitted" \in DOMAIN loc /\ ~IsNone(loc.current_price)
    /\ FailedOnBuySide(Len(remote)) /\ IsCreateOrder(LastRequest)
    /\ Len(PlacedOn(BUY)) = 1 /\ NoSellSubmitted
    /\ \E k \in DOMAIN loc.grid_prices :
          GridTakes(SELL, loc.grid_prices[k], loc.current_price[1])

\* One step of a place_twap_order call in progress: a remote call or a wait
\* that returns or raises.
TwapStep ==
    \/ TwapFormatQuantity \/ TwapTicker \/ TwapFormatPrice
    \/ TwapCreateOrder \/ TwapSleep

\* The builders, with every remote call and every wait of a TWAP call in
\* progress eventually returning or raising.
SpecTwapReturns == Init /\ [][Next]_vars /\ WF_vars(TwapStep)

TwapAccepted == call.builder = "twap" /\ pc # "idle" /\ "i" \in DOMAIN loc

TwapReturned == call.builder = "twap" /\ pc = "done"

TwapWithinBudget ==
    TwapAccepted
        => /\ loc.i <= call.num_intervals
           /\ pc # "done" => loc.i < call.num_intervals
           /\ Len(CreateOrders) <= call.num_intervals
           /\ Len(Sleeps) <= call.num_intervals - 1

\* C27: an accepted place_twap_order call never goes beyond num_intervals
\* loop iterations, num_intervals order submissions and num_intervals - 1
\* waits, and, its remote calls and waits returning or raising, it eventually
\* returns.
C27_TwapReturns == []TwapWithinBudget /\ (TwapAccepted ~> TwapReturned)

\* C27 witness: an accepted TWAP call has returned after as many iterations
\* and submissions as the bound allows, and one wait less.
C27_Witness ==
    /\ TwapAccepted /\ TwapReturned /\ call.num_intervals = MaxIntervals
    /\ loc.i = MaxIntervals /\ Len(CreateOrders) = MaxIntervals
    /\ Len(Sleeps) = MaxIntervals - 1

\* C28 (stated as claimed): for the time difference d the startup check of
\* the bot has just measured, the bot reports the clocks synchronized exactly
\* when check_time_sync reports the same d as synced (status OK).
C28_SameClassification ==
    (pc = "bot_connect" /\ ~IsNone(loc.time_diff))
        => /\ (loc.logged = "time synchronized") <=> CheckTimeSync(loc.time_diff).synced
           /\ (loc.logged = "time difference detected")
                 <=> (CheckTimeSync(loc.time_diff).status = "OUT_OF_SYNC")

====
